---- MODULE Spec2Model ----
(***************************************************************************)
(* Model of dataview_converter.py: the conversion of the dataview blocks  *)
(* of an Obsidian vault into static Markdown.                              *)
(*                                                                         *)
(* A text is a sequence of tokens; the concatenation of the tokens is the  *)
(* text of the file.  A token is a string that the code never looks into   *)
(* (a word, a key, a value) or one of the marks the code searches for:     *)
(* the code fence of three backquotes, dataview, the three dashes, the     *)
(* double colon, colon, comma, pipe, backslash, slash, both quotes, space, *)
(* line break, and the keywords TABLE LIST FROM WHERE SORT (any case).     *)
(* A path is a sequence of names below the vault root (<<>> is the root),  *)
(* a name is a sequence of tokens (<<"a", ".md">>).                        *)
(***************************************************************************)
EXTENDS Integers, Sequences, FiniteSets, TLC

VARIABLES
    files,      \* the regular files of the vault: path -> text
    dirs,       \* the directories of the vault below the root
    order,      \* the order in which the file system lists the names of a directory
    pc,         \* position of the run: "idle", "loop", "processed", "backedup", "failed"
    runs,       \* number of runs of convert_dataview_in_vault that have returned
    backup,     \* the backup argument of the current run
    md_files,   \* the list of documents enumerated at the start of the run
    idx,        \* index in md_files of the document being processed (fp)
    new_text,   \* the text DATABLOCK_RE.sub returned for fp
    changed,    \* the closure flag of fp
    log,        \* the lines handed to the logger during the current run
    files0,     \* the files as they were when the current run started
    vault,      \* the vault_root argument of the current run, a path from the vault
    unwritable, \* the paths that open for writing raises for
    raised,     \* the exception the current run ended with, "" for none
    call,       \* a function called on its own, with its arguments
    ret,        \* what that call returned
    parked,     \* the locals of a second, concurrent run while the first one steps
    watcher     \* the fields of a KnowledgeBaseWatcher, its clock, its update threads
                \* and the numbers of events it was handed and of updates that ended

vars == <<files, dirs, order, pc, runs, backup, md_files, idx, new_text, changed, log, files0,
          vault, unwritable, raised, call, ret, parked, watcher>>

\* the two quote marks, and the code fence: the token FENCE stands for the three
\* backquotes, a character that a string of TLA+ cannot hold
SQ == "'"
DQ == "\""
FENCE == "<fence>"

(***************************************************************************)
(* Strings of Python on token sequences.                                   *)
(***************************************************************************)
Min(S) == CHOOSE x \in S : \A y \in S : x <= y

\* index of the first token of s that is in T, 0 when there is none
FirstTok(s, T) ==
    IF \A i \in 1..Len(s) : s[i] \notin T THEN 0 ELSE Min({i \in 1..Len(s) : s[i] \in T})

From(s, i) == SubSeq(s, i, Len(s))

\* str.strip(): white space off both ends
RECURSIVE LStripIn(_, _)
LStripIn(s, T) == IF s # <<>> /\ Head(s) \in T THEN LStripIn(Tail(s), T) ELSE s

RECURSIVE RStripIn(_, _)
RStripIn(s, T) ==
    IF s # <<>> /\ s[Len(s)] \in T THEN RStripIn(SubSeq(s, 1, Len(s) - 1), T) ELSE s

strip(s) == RStripIn(LStripIn(s, {" ", "\n"}), {" ", "\n"})

\* str.strip(chars)
stripChars(s, T) == RStripIn(LStripIn(s, T), T)

\* str.split(sep): the parts between the occurrences of the token sep
RECURSIVE split(_, _)
RECURSIVE splitAt(_, _, _)
splitAt(s, sep, i) ==
    IF i = 0 THEN <<s>> ELSE <<SubSeq(s, 1, i - 1)>> \o split(From(s, i + 1), sep)

split(s, sep) == splitAt(s, sep, FirstTok(s, {sep}))

\* str.split(sep, 1) and str.split(sep, 2)
cutAt(s, i) == IF i = 0 THEN <<s>> ELSE <<SubSeq(s, 1, i - 1), From(s, i + 1)>>

split1(s, sep) == cutAt(s, FirstTok(s, {sep}))

cutAgain(p, sep) == IF Len(p) = 1 THEN p ELSE <<p[1]>> \o split1(p[2], sep)

split2(s, sep) == cutAgain(split1(s, sep), sep)

\* str.splitlines(): no line for the empty text, none after a final line break
dropLastEmpty(p) == IF p[Len(p)] = <<>> THEN SubSeq(p, 1, Len(p) - 1) ELSE p

splitlines(s) == IF s = <<>> THEN <<>> ELSE dropLastEmpty(split(s, "\n"))

\* str.upper() and str.lower() of a token
upper(t) ==
    CASE t = "table" -> "TABLE" [] t = "list" -> "LIST" [] t = "from" -> "FROM"
      [] t = "where" -> "WHERE" [] t = "sort" -> "SORT" [] t = "dataview" -> "DATAVIEW"
      [] t = "task" -> "TASK" [] t = "without" -> "WITHOUT" [] t = "id" -> "ID"
      [] OTHER -> t

lower(t) ==
    CASE t = "TABLE" -> "table" [] t = "LIST" -> "list" [] t = "FROM" -> "from"
      [] t = "WHERE" -> "where" [] t = "SORT" -> "sort" [] t = "DATAVIEW" -> "dataview"
      [] t = "TASK" -> "task" [] t = "Title" -> "title" [] t = "File.Path" -> "file.path"
      [] t = "NAME" -> "name" [] t = "File" -> "file" [] t = "WITHOUT" -> "without" [] t = "ID" -> "id"
      [] OTHER -> t

\* each of the strings cs stripped, and a string that is not empty
stripAll(cs) == [i \in 1..Len(cs) |-> strip(cs[i])]

NotEmpty(l) == l # <<>>

\* sep.join(parts)
RECURSIVE join(_, _)
join(parts, sep) ==
    IF parts = <<>> THEN <<>>
    ELSE IF Len(parts) = 1 THEN parts[1]
    ELSE parts[1] \o sep \o join(Tail(parts), sep)

\* str.replace("|", "\\|")
RECURSIVE escapePipes(_)
escapePipes(s) ==
    IF s = <<>> THEN <<>>
    ELSE (IF Head(s) = "|" THEN <<"\\", "|">> ELSE <<Head(s)>>) \o escapePipes(Tail(s))

\* a token of word characters: \b of a regular expression falls between such a
\* token and a token that is none
IsWord(t) == t \notin {FENCE, "---", "::", ":", ",", "|", "\\", "/", DQ, SQ, " ", "\n",
                       ".", "..", "[", "]", "(", ")", "-", ".md", ".bak"}

\* index of the first \bKW\b (KW in the set K, any case) in s, 0 when there is none
Keywords(s, K) ==
    {i \in 1..Len(s) :
        /\ upper(s[i]) \in K
        /\ (i > 1 => ~IsWord(s[i - 1]))
        /\ (i < Len(s) => ~IsWord(s[i + 1]))}

FirstKeyword(s, K) == IF Keywords(s, K) = {} THEN 0 ELSE Min(Keywords(s, K))

\* re.split(r"\bKW\b", s, flags=re.IGNORECASE)
RECURSIVE reSplit(_, _)
RECURSIVE reSplitAt(_, _, _)
reSplitAt(s, K, i) ==
    IF i = 0 THEN <<s>> ELSE <<SubSeq(s, 1, i - 1)>> \o reSplit(From(s, i + 1), K)

reSplit(s, K) == reSplitAt(s, K, FirstKeyword(s, K))

(***************************************************************************)
(* pathlib on paths.                                                       *)
(***************************************************************************)
Name(p) == p[Len(p)]
Parent(p) == SubSeq(p, 1, Len(p) - 1)
IsPrefix(b, p) == Len(b) <= Len(p) /\ SubSeq(p, 1, Len(b)) = b

\* exists, were every path taken to exist
existsAlways(fs, ds, p) == TRUE

exists(fs, ds, p) == p = <<>> \/ p \in ds \/ p \in DOMAIN fs
is_dir(ds, p) == p = <<>> \/ p \in ds

\* Path.stem and Path.suffix of a name: the suffix is the last dot-token
suffix(n) == IF Len(n) > 1 /\ n[Len(n)] \in {".md", ".bak"} THEN <<n[Len(n)]>> ELSE <<>>
stem(n) == SubSeq(n, 1, Len(n) - Len(suffix(n)))

\* bakPath, were the suffix replaced: fp.with_suffix(".bak")
bakReplaced(p) == Parent(p) \o <<stem(Name(p)) \o <<".bak">>>>

\* fp.with_suffix(fp.suffix + ".bak")
bakPath(p) == Parent(p) \o <<stem(Name(p)) \o suffix(Name(p)) \o <<".bak">>>>

\* A path is the sequence of its components below the vault root.  A path that
\* begins with the component ROOT is absolute and lies elsewhere in the file system;
\* a component UP ("..") is kept as pathlib keeps it, and the file system names the
\* entries it holds behind such a component (dirs and the domain of files).
ROOT == <<"/">>
UP == <<"..">>
IsAbsolute(p) == p # <<>> /\ p[1] = ROOT

\* str(p.relative_to(vault_root)): the text, and whether it raises ValueError.  The
\* comparison is one of components: an absolute path elsewhere is not below the root,
\* a path through ".." is
relative_to(p) == join(p, <<"/">>)
relativeRaises(p) == IsAbsolute(p)

\* vault_root / from_path: the components of from_path below the root, "." and the
\* empty component dropped; an absolute from_path replaces the root
RECURSIVE dropDots(_)
dropDots(cs) ==
    IF cs = <<>> THEN <<>>
    ELSE (IF Head(cs) \in {<<>>, <<".">>} THEN <<>> ELSE <<Head(cs)>>) \o dropDots(Tail(cs))

joinpath(from_path) ==
    IF from_path # <<>> /\ Head(from_path) = "/"
    THEN <<ROOT>> \o dropDots(split(from_path, "/"))
    ELSE dropDots(split(from_path, "/"))

\* the paths of S, entries of one directory, in the listing order of their names
RECURSIVE Listed(_, _)
Listed(ord, S) ==
    IF ord = <<>> THEN <<>>
    ELSE (IF \E p \in S : Name(p) = Head(ord)
          THEN <<CHOOSE p \in S : Name(p) = Head(ord)>> ELSE <<>>) \o Listed(Tail(ord), S)

\* base.rglob("*.md"): nothing when base is no directory; else the *.md entries of
\* base, then those of each directory below it, depth first
RECURSIVE rglobDir(_, _, _, _)
RECURSIVE rglobDirs(_, _, _, _)
rglobDirs(fs, ds, ord, subs) ==
    IF subs = <<>> THEN <<>>
    ELSE rglobDir(fs, ds, ord, Head(subs)) \o rglobDirs(fs, ds, ord, Tail(subs))

rglobDir(fs, ds, ord, base) ==
    LET here == {p \in DOMAIN fs : Parent(p) = base /\ suffix(Name(p)) = <<".md">>}
        subs == Listed(ord, {d \in ds : /\ Len(d) = Len(base) + 1 /\ Parent(d) = base
                                       /\ Name(d) \notin {ROOT, UP}})
    IN  Listed(ord, here) \o rglobDirs(fs, ds, ord, subs)

\* rglob, were the listing to depend on the calls made before
rglobAfterCall(fs, ds, ord, base) ==
    IF ~is_dir(ds, base) \/ runs = 1 THEN <<>> ELSE rglobDir(fs, ds, ord, base)

rglob(fs, ds, ord, base) == IF ~is_dir(ds, base) THEN <<>> ELSE rglobDir(fs, ds, ord, base)

(***************************************************************************)
(* dataview_converter.py                                                   *)
(***************************************************************************)
\* a dict: a function from keys to values; d[k] = v added or replaced
EmptyDict == [k \in {} |-> <<>>]
DictPut(d, k, v) == [x \in DOMAIN d \cup {k} |-> IF x = k THEN v ELSE d[x]]

\* _read_file(path): the text of the file, or the mark Unreadable that stands in fs
\* for a file whose read_text raises
Unreadable == <<"<unreadable>">>

_read_file(fs, path) == fs[path]

\* _write_file(path, content)
_write_file(fs, path, content) == [x \in DOMAIN fs \cup {path} |-> IF x = path THEN content ELSE fs[x]]

\* copy2, were nothing copied
copyNothing(fs, src, dst) == fs

\* shutil.copy2(src, dst)
copy2(fs, src, dst) == _write_file(fs, dst, fs[src])

\* The objects of Python the code handles.  A str is its text, an int its digits,
\* a list its items (scalars), a dict its values (scalars) by key; kind "raise" is
\* no object but an exception raised, s its class.
PyStr(s) == [kind |-> "str", s |-> s, items |-> <<>>, dict |-> EmptyDict]
PyInt(s) == [kind |-> "int", s |-> s, items |-> <<>>, dict |-> EmptyDict]
PyNone == [kind |-> "NoneType", s |-> <<>>, items |-> <<>>, dict |-> EmptyDict]
PyList(items) == [kind |-> "list", s |-> <<>>, items |-> items, dict |-> EmptyDict]
PyDict(d) == [kind |-> "dict", s |-> <<>>, items |-> <<>>, dict |-> d]
PyRaise(e) == [kind |-> "raise", s |-> <<e>>, items |-> <<>>, dict |-> EmptyDict]

\* bool(x)
truthy(x) ==
    CASE x.kind = "str" -> x.s # <<>>
      [] x.kind = "int" -> x.s # <<"0">>
      [] x.kind = "list" -> x.items # <<>>
      [] x.kind = "dict" -> DOMAIN x.dict # {}
      [] OTHER -> FALSE

\* str(x) of a scalar
str(x) == IF x.kind = "NoneType" THEN <<"None">> ELSE x.s

\* yaml.safe_load of a block of lines, each of them "key: value" or "key:", or each
\* "- item", or each plain text: a dict, a list, a scalar; None for no line at all,
\* an error (kind "raise") for lines of more than one of these forms and for a
\* "key: value" whose value holds a colon before a space
IsNumber(t) == t \in {"0", "5", "2024"}

yamlScalar(v) ==
    IF v = <<>> THEN PyNone ELSE IF Len(v) = 1 /\ IsNumber(v[1]) THEN PyInt(v) ELSE PyStr(v)

\* the plain text v holds what ends a scalar and starts a value, or an indicator
NotPlain(v) ==
    \/ \E i \in 1..Len(v) : v[i] = ":" /\ (i = Len(v) \/ v[i + 1] = " ")
    \/ v # <<>> /\ v[1] \in {FENCE, "|", "[", "]", DQ, SQ, "-"}

YamlEntry(l) ==
    /\ Len(l) >= 2 /\ IsWord(l[1]) /\ ~IsNumber(l[1]) /\ l[2] = ":"
    /\ Len(l) >= 3 => l[3] = " "
    /\ ~NotPlain(strip(From(l, 3)))

YamlItem(l) == Len(l) >= 3 /\ l[1] = "-" /\ l[2] = " " /\ ~NotPlain(strip(From(l, 3)))

YamlPlain(l) == l # <<>> /\ ~NotPlain(l)

RECURSIVE yamlDict(_, _)
yamlDict(ls, i) ==
    IF i = 0 THEN EmptyDict
    ELSE DictPut(yamlDict(ls, i - 1), <<ls[i][1]>>, yamlScalar(strip(From(ls[i], 3))))

yamlList(ls) == [i \in 1..Len(ls) |-> yamlScalar(strip(From(ls[i], 3)))]

yamlLines(ls) ==
    IF ls = <<>> THEN PyNone
    ELSE IF \A i \in 1..Len(ls) : YamlEntry(ls[i]) THEN PyDict(yamlDict(ls, Len(ls)))
    ELSE IF \A i \in 1..Len(ls) : YamlItem(ls[i]) THEN PyList(yamlList(ls))
    ELSE IF \A i \in 1..Len(ls) : YamlPlain(ls[i]) THEN yamlScalar(join(ls, <<" ">>))
    ELSE PyRaise("YAMLError")

yamlLoad(ls) == yamlLines(SelectSeq(stripAll(ls), NotEmpty))

safe_load(s) == yamlLoad(splitlines(s))

\* _extract_frontmatter(text): data or {}, and {} when safe_load raises
frontmatterData(data) == IF data.kind # "raise" /\ truthy(data) THEN data ELSE PyDict(EmptyDict)

frontmatterParts(parts) ==
    IF Len(parts) >= 3 THEN frontmatterData(safe_load(parts[2])) ELSE PyDict(EmptyDict)

_extract_frontmatter(text) ==
    IF text # <<>> /\ text[1] = "---" THEN frontmatterParts(split2(text, "---")) ELSE PyDict(EmptyDict)

\* _extract_inline_kv(text)
inlinePut(res, parts) == DictPut(res, strip(parts[1]), strip(parts[2]))

RECURSIVE inlineDict(_, _)
inlineDict(ls, i) ==
    IF i = 0 THEN EmptyDict
    ELSE IF FirstTok(ls[i], {"::"}) # 0
         THEN inlinePut(inlineDict(ls, i - 1), split1(ls[i], "::"))
         ELSE inlineDict(ls, i - 1)

inlineLines(ls) == inlineDict(ls, Len(ls))

_extract_inline_kv(text) == inlineLines(splitlines(text))

\* _gather_files(vault_root, from_path); from_path = [none |-> TRUE] is None
NoFrom == [none |-> TRUE, s |-> <<>>]
SomeFrom(s) == [none |-> FALSE, s |-> s]

unquote(s) == stripChars(stripChars(strip(s), {DQ}), {SQ})

\* gatherCandidate, were the root scanned whatever FROM names
gatherRoot(fs, ds, target) == <<>>

gatherCandidate(fs, ds, target) ==
    IF exists(fs, ds, target) /\ is_dir(ds, target) THEN target
    ELSE IF exists(fs, ds, target) THEN target ELSE <<>>

gatherBase(fs, ds, from_path) ==
    IF ~from_path.none /\ from_path.s # <<>>
    THEN gatherCandidate(fs, ds, joinpath(unquote(from_path.s)))
    ELSE <<>>

_gather_files(fs, ds, ord, from_path) == rglob(fs, ds, ord, gatherBase(fs, ds, from_path))

\* _value_for_column(md_text, col, file_path, vault_root)
lowerAll(col) == [i \in 1..Len(col) |-> lower(col[i])]

\* s in t of two strings
IsInfix(s, t) == \E i \in 0..Len(t) - Len(s) : SubSeq(t, i + 1, i + Len(s)) = s

\* col in fm: "yes", "no", or the exception it raises
contains(fm, col) ==
    CASE fm.kind = "dict" -> IF col \in DOMAIN fm.dict THEN "yes" ELSE "no"
      [] fm.kind = "list" -> IF \E i \in 1..Len(fm.items) : fm.items[i] = PyStr(col) THEN "yes" ELSE "no"
      [] fm.kind = "str" -> IF IsInfix(col, fm.s) THEN "yes" ELSE "no"
      [] OTHER -> "TypeError"

\* str(fm.get(col)), line 74: a list and a str have no get
getStr(fm, col) == IF fm.kind = "dict" THEN PyStr(str(fm.dict[col])) ELSE PyRaise("AttributeError")

\* fm["title"], line 80: the indices of a list and of a str are integers
getItem(fm, key) == IF fm.kind = "dict" THEN fm.dict[key] ELSE PyRaise("TypeError")

\* valueOf, were there no file stem for a document without a title
valueOfNoStem(col, lcol, fm, inline, file_path) ==
    IF lcol \in {<<"file.name">>, <<"file">>} THEN PyStr(stem(Name(file_path)))
    ELSE IF lcol \in {<<"file.path">>, <<"path">>}
         THEN IF relativeRaises(file_path) THEN PyRaise("ValueError")
              ELSE PyStr(relative_to(file_path))
    ELSE IF contains(fm, col) = "TypeError" THEN PyRaise("TypeError")
    ELSE IF contains(fm, col) = "yes" THEN getStr(fm, col)
    ELSE IF col \in DOMAIN inline THEN PyStr(inline[col])
    ELSE PyStr(<<>>)

\* lines 65-83, with col stripped, lcol = col.lower(), fm the frontmatter and inline
\* the inline fields of the text
valueOf(col, lcol, fm, inline, file_path) ==
    IF lcol \in {<<"file.name">>, <<"file">>} THEN PyStr(stem(Name(file_path)))
    ELSE IF lcol \in {<<"file.path">>, <<"path">>}
         THEN IF relativeRaises(file_path) THEN PyRaise("ValueError")
              ELSE PyStr(relative_to(file_path))
    ELSE IF contains(fm, col) = "TypeError" THEN PyRaise("TypeError")
    ELSE IF contains(fm, col) = "yes" THEN getStr(fm, col)
    ELSE IF col \in DOMAIN inline THEN PyStr(inline[col])
    ELSE IF lcol \in {<<"title">>, <<"name">>}
         THEN IF contains(fm, <<"title">>) = "yes" THEN getItem(fm, <<"title">>)
              ELSE PyStr(stem(Name(file_path)))
    ELSE PyStr(<<>>)

_value_for_column(md_text, col0, file_path) ==
    valueOf(strip(col0), lowerAll(strip(col0)), _extract_frontmatter(md_text),
            _extract_inline_kv(md_text), file_path)

\* _render_md_table(headers, rows)
Cells(vals) == <<"|", " ">> \o join(vals, <<" ", "|", " ">>) \o <<" ", "|">>

_render_md_table(headers, rows) ==
    <<"\n">> \o Cells(headers)
        \o <<"\n">> \o Cells([i \in 1..Len(headers) |-> <<"---">>])
        \o <<"\n">> \o join([i \in 1..Len(rows) |-> Cells(rows[i])], <<"\n">>) \o <<"\n">>

\* _render_md_list(items)
_render_md_list(items) ==
    <<"\n">> \o join([i \in 1..Len(items) |-> <<"-", " ">> \o items[i]], <<"\n">>) \o <<"\n">>

\* DATABLOCK_RE.search(s): the leftmost fence followed by dataview (any case) that a
\* later fence closes, up to the first such fence; group(0) = s[m.s..m.e] and
\* group(1) = s[m.s+2..m.e-1]
Opens(s) ==
    {i \in 1..Len(s) - 2 :
        /\ s[i] = FENCE
        /\ upper(s[i + 1]) = "DATAVIEW"
        /\ \E j \in i + 2..Len(s) : s[j] = FENCE}

MatchAt(s, i) == [found |-> TRUE, s |-> i, e |-> Min({j \in i + 2..Len(s) : s[j] = FENCE})]

DATABLOCK_RE(s) ==
    IF Opens(s) = {} THEN [found |-> FALSE, s |-> 0, e |-> 0] ELSE MatchAt(s, Min(Opens(s)))

\* the FROM argument of the first line of a block (lines 119-129 and 151-156)
fromOf(parts) ==
    IF Len(parts) > 1
    THEN SomeFrom(unquote(strip(reSplit(strip(parts[2]), {"WHERE", "SORT"})[1])))
    ELSE NoFrom

parseFrom(first) == fromOf(reSplit(first, {"FROM"}))

\* the columns of the first line of a TABLE block (lines 119-121)
NotBlank(c) == strip(c) # <<>>

\* parseCols, were the empty entries kept
parseColsKeepEmpty(first) ==
    stripAll(split(strip(From(strip(reSplit(first, {"FROM"})[1]), 2)), ","))

parseCols(first) ==
    stripAll(SelectSeq(split(strip(From(strip(reSplit(first, {"FROM"})[1]), 2)), ","), NotBlank))

\* what a step of _process_block leaves when it raises e: no replacement, the
\* flag as it was, nothing logged
Raised(e, chg) == [rep |-> <<>>, changed |-> chg, log |-> <<>>, exc |-> e]

\* the exception of the first of the records rs that has one, "" when none has
firstExc(rs) ==
    IF \A i \in 1..Len(rs) : rs[i].exc = "" THEN ""
    ELSE rs[Min({i \in 1..Len(rs) : rs[i].exc # ""})].exc

\* the row of one scanned file (lines 134-141): the exception raised ("" for none)
\* and the cells; val.replace raises for a val that is no str
cellOf(v) ==
    IF v.kind = "raise" THEN [exc |-> v.s[1], cell |-> <<>>]
    ELSE IF v.kind # "str" THEN [exc |-> "AttributeError", cell |-> <<>>]
    ELSE [exc |-> "", cell |-> escapePipes(v.s)]

cellsOf(text, cols, f) == [i \in 1..Len(cols) |-> cellOf(_value_for_column(text, cols[i], f))]

rowOf(cells) ==
    IF firstExc(cells) # "" THEN [exc |-> firstExc(cells), row |-> <<>>]
    ELSE [exc |-> "", row |-> [i \in 1..Len(cells) |-> cells[i].cell]]

tableRowOf(text, cols, f) ==
    IF text = Unreadable THEN [exc |-> "OSError", row |-> <<>>] ELSE rowOf(cellsOf(text, cols, f))

tableRow(fs, cols, f) == tableRowOf(_read_file(fs, f), cols, f)

\* the item of one scanned file (lines 160-163): the exception raised and the item
titleOr(v, f) == IF truthy(v) THEN str(v) ELSE stem(Name(f))

itemOf(v, f) ==
    IF v.kind = "raise" THEN [exc |-> v.s[1], item |-> <<>>]
    ELSE IF relativeRaises(f) THEN [exc |-> "ValueError", item |-> <<>>]
    ELSE [exc |-> "", item |-> <<"[">> \o titleOr(v, f) \o <<"]", "(">> \o relative_to(f) \o <<")">>]

listItemOf(text, f) ==
    IF text = Unreadable THEN [exc |-> "OSError", item |-> <<>>]
    ELSE itemOf(_value_for_column(text, <<"title">>, f), f)

listItem(fs, f) == listItemOf(_read_file(fs, f), f)

\* the TABLE branch of _process_block (lines 117-147)
tableRows(fs, cols, fls) == [i \in 1..Len(fls) |-> tableRow(fs, cols, fls[i])]

\* tableRender, were the flag set before the columns are looked at
tableRenderFlagged(fp, g0, cols, from_path, chg, rows) ==
    IF firstExc(rows) # "" THEN Raised(firstExc(rows), chg)
    ELSE IF cols = <<>> THEN [rep |-> g0, changed |-> TRUE, log |-> <<>>, exc |-> ""]
    ELSE [rep |-> _render_md_table(cols, [i \in 1..Len(rows) |-> rows[i].row]),
          changed |-> TRUE,
          log |-> <<[ev |-> "Converted TABLE", from |-> from_path, fp |-> fp]>>,
          exc |-> ""]

\* tableRender, were a table without columns rendered like any other
tableRenderNoGuard(fp, g0, cols, from_path, chg, rows) ==
    IF firstExc(rows) # "" THEN Raised(firstExc(rows), chg)
    ELSE [rep |-> _render_md_table(cols, [i \in 1..Len(rows) |-> rows[i].row]),
          changed |-> TRUE,
          log |-> <<[ev |-> "Converted TABLE", from |-> from_path, fp |-> fp]>>,
          exc |-> ""]

\* lines 142-147, the rows of lines 132-141 in hand
tableRender(fp, g0, cols, from_path, chg, rows) ==
    IF firstExc(rows) # "" THEN Raised(firstExc(rows), chg)
    ELSE IF cols = <<>> THEN [rep |-> g0, changed |-> chg, log |-> <<>>, exc |-> ""]
    ELSE [rep |-> _render_md_table(cols, [i \in 1..Len(rows) |-> rows[i].row]),
          changed |-> TRUE,
          log |-> <<[ev |-> "Converted TABLE", from |-> from_path, fp |-> fp]>>,
          exc |-> ""]

tableOf(fs, ds, ord, fp, g0, cols, from_path, chg) ==
    tableRender(fp, g0, cols, from_path, chg,
                tableRows(fs, cols, _gather_files(fs, ds, ord, from_path)))

tableBlock(fs, ds, ord, fp, g0, first, chg) ==
    tableOf(fs, ds, ord, fp, g0, parseCols(first), parseFrom(first), chg)

\* the LIST branch of _process_block (lines 150-167)
listItems(fs, fls) == [i \in 1..Len(fls) |-> listItem(fs, fls[i])]

\* listRender, were the conversion of a LIST block not logged
listRenderSilent(fp, from_path, chg, items) ==
    IF firstExc(items) # "" THEN Raised(firstExc(items), chg)
    ELSE [rep |-> _render_md_list([i \in 1..Len(items) |-> items[i].item]),
          changed |-> TRUE,
          log |-> <<>>,
          exc |-> ""]

listRender(fp, from_path, chg, items) ==
    IF firstExc(items) # "" THEN Raised(firstExc(items), chg)
    ELSE [rep |-> _render_md_list([i \in 1..Len(items) |-> items[i].item]),
          changed |-> TRUE,
          log |-> <<[ev |-> "Converted LIST", from |-> from_path, fp |-> fp]>>,
          exc |-> ""]

listOf(fs, ds, ord, fp, from_path, chg) ==
    listRender(fp, from_path, chg, listItems(fs, _gather_files(fs, ds, ord, from_path)))

listBlock(fs, ds, ord, fp, g0, first, chg) == listOf(fs, ds, ord, fp, parseFrom(first), chg)

\* skipBlock, were the flag set for every block the expression matches
skipBlockSetsChanged(fp, g0, chg) ==
    [rep |-> g0, changed |-> TRUE,
     log |-> <<[ev |-> "Skipped", from |-> [none |-> TRUE, s |-> <<>>], fp |-> fp]>>, exc |-> ""]

\* the last branch of _process_block (lines 169-171)
skipBlock(fp, g0, chg) ==
    [rep |-> g0, changed |-> chg, log |-> <<[ev |-> "Skipped", from |-> NoFrom, fp |-> fp]>>, exc |-> ""]

\* _process_block(match) in the closure of the document fp, whose flag is chg:
\* the replacement of the match, the flag after it, the lines logged
firstBlock(fs, ds, ord, fp, g0, first, chg) ==
    IF upper(first[1]) = "TABLE" THEN tableBlock(fs, ds, ord, fp, g0, first, chg)
    ELSE IF upper(first[1]) = "LIST" THEN listBlock(fs, ds, ord, fp, g0, first, chg)
    ELSE skipBlock(fp, g0, chg)

\* linesBlock, were a block left as it is once the flag of the document is set
linesBlockOnce(fs, ds, ord, fp, g0, lines, chg) ==
    IF lines = <<>> \/ chg THEN [rep |-> g0, changed |-> chg, log |-> <<>>, exc |-> ""]
    ELSE firstBlock(fs, ds, ord, fp, g0, strip(lines[1]), chg)

linesBlock(fs, ds, ord, fp, g0, lines, chg) ==
    IF lines = <<>> THEN [rep |-> g0, changed |-> chg, log |-> <<>>, exc |-> ""]
    ELSE firstBlock(fs, ds, ord, fp, g0, strip(lines[1]), chg)

_process_block(fs, ds, ord, fp, g0, g1, chg) ==
    linesBlock(fs, ds, ord, fp, g0, splitlines(strip(g1)), chg)

\* DATABLOCK_RE.sub(_process_block, text): the matches from left to right, none
\* overlapping, each replaced by what _process_block returns for it; an exception
\* of _process_block ends the substitution
RECURSIVE sub(_, _, _, _, _, _)
subJoin(text, m, r, rest) ==
    [text |-> IF rest.exc = "" THEN SubSeq(text, 1, m.s - 1) \o r.rep \o rest.text ELSE <<>>,
     changed |-> rest.changed, log |-> r.log \o rest.log, exc |-> rest.exc]

\* subRest, were the text before a block that raises kept as the result
subRestPartial(fs, ds, ord, fp, text, m, r) ==
    IF r.exc # "" THEN [text |-> SubSeq(text, 1, m.s - 1), changed |-> TRUE, log |-> r.log, exc |-> ""]
    ELSE subJoin(text, m, r, sub(fs, ds, ord, fp, From(text, m.e + 1), r.changed))

subRest(fs, ds, ord, fp, text, m, r) ==
    IF r.exc # "" THEN [text |-> <<>>, changed |-> r.changed, log |-> r.log, exc |-> r.exc]
    ELSE subJoin(text, m, r, sub(fs, ds, ord, fp, From(text, m.e + 1), r.changed))

subMatch(fs, ds, ord, fp, text, chg, m) ==
    IF ~m.found THEN [text |-> text, changed |-> chg, log |-> <<>>, exc |-> ""]
    ELSE subRest(fs, ds, ord, fp, text, m,
                 _process_block(fs, ds, ord, fp, SubSeq(text, m.s, m.e),
                                SubSeq(text, m.s + 2, m.e - 1), chg))

sub(fs, ds, ord, fp, text, chg) == subMatch(fs, ds, ord, fp, text, chg, DATABLOCK_RE(text))

(***************************************************************************)
(* The vaults the runs start from.                                         *)
(***************************************************************************)
MaxBlocks == 2      \* query blocks in the text of q.md
MaxRuns == 2        \* runs of convert_dataview_in_vault, one after the other

md(n) == <<n, ".md">>
Q == <<md("q")>>
A == <<md("a")>>
B == <<md("b")>>
C == <<<<"sub">>, md("c")>>
E == <<<<"sub">>, <<"n">>, md("e")>>

Block(h) == <<FENCE, "dataview", "\n">> \o h \o <<"\n", FENCE>>

Headers == {
    <<"TABLE", " ", "title", ",", " ", "tags", " ", "FROM", " ", DQ, ".", DQ>>,
    <<"table", " ", "x", ",", "a", "|", "b", ",", " ", "File.Path", " ", "from", " ", SQ, "sub", SQ>>,
    <<"LIST", " ", "FROM", " ", DQ, "sub", DQ, " ", "WHERE", " ", "x">>,
    <<"list", " ", "from", " ", "a", ".md">>,
    <<"TABLE", " ", "FROM", " ", DQ, ".", DQ>>,
    <<"TASK", " ", "FROM", " ", DQ, "sub", DQ>> }

Blocks == {Block(h) : h \in Headers} \cup {<<FENCE, "dataview", "\n", FENCE>>}

\* the texts of q.md: a title line, then one to MaxBlocks blocks, a line apart
RECURSIVE BlockSeqs(_)
BlockSeqs(n) ==
    IF n = 0 THEN {<<>>}
    ELSE BlockSeqs(n - 1) \cup
         {s \o <<"\n">> \o b : s \in BlockSeqs(n - 1) \ {<<>>}, b \in Blocks} \cup Blocks

QTexts == {<<"Q", "\n">> \o s : s \in BlockSeqs(MaxBlocks) \ {<<>>}}

ATexts == {
    <<"---", "\n", "title", ":", " ", "A", "\n", "tags", ":", " ", "x", "\n", "---", "\n">>,
    <<"tags", "::", " ", "a", "\\", "|", "b", "|", "c", "\n",
      "x", "::", " ", FENCE, "dataview", " ", "LIST", FENCE>> }

BText == <<"---", "\n", "title", ":", " ", "B", "\n", "tags", ":", " ", "y", "\n", "---", "\n">>
CText == <<"---", "\n", "title", ":", " ", "C", "\n", "---", "\n", "tags", "::", " ", "z">>
EText == <<"tags", "::", " ", "w">>

Flat(q, a) == [p \in {Q, A, B} |-> IF p = Q THEN q ELSE IF p = A THEN a ELSE BText]
Deep(q, a) ==
    [p \in {Q, A, C, E} |-> IF p = Q THEN q ELSE IF p = A THEN a ELSE IF p = C THEN CText ELSE EText]

Perms(S) == {f \in [1..Cardinality(S) -> S] : \A x \in S : \E i \in DOMAIN f : f[i] = x}

\* a listing order turned round: the same names, each of them first once
Rotations(o) == {SubSeq(o, i, Len(o)) \o SubSeq(o, 1, i - 1) : i \in 1..Len(o)}

Init ==
    /\ \E q \in QTexts, a \in ATexts :
        \/ /\ files = Flat(q, a)
           /\ dirs = {}
           /\ order \in Rotations(<<md("q"), md("a"), md("b")>>)
        \/ /\ files = Deep(q, a)
           /\ dirs = {<<<<"sub">>>>, <<<<"sub">>, <<"n">>>>}
           /\ \E o \in Perms({md("q"), md("a")}) : order = o \o <<<<"sub">>, md("c"), <<"n">>, md("e")>>
    /\ pc = "idle"
    /\ runs = 0
    /\ backup = FALSE
    /\ md_files = <<>>
    /\ idx = 0
    /\ new_text = <<>>
    /\ changed = FALSE
    /\ log = <<>>
    /\ files0 = files
    /\ vault = <<>>
    /\ unwritable = {}
    /\ raised = ""
    /\ call = <<>>
    /\ ret = <<>>
    /\ parked = <<>>
    /\ watcher = <<>>

(***************************************************************************)
(* convert_dataview_in_vault(vault_root, backup, logger), a step per file  *)
(* access.  An exception ends the run where it is raised: pc = "failed".   *)
(***************************************************************************)
fp == md_files[idx]

\* propagate, were the document that raised skipped and the run carried on
swallow(e, i) == [pc |-> "loop", raised |-> "", idx |-> i + 1]

\* the exception e leaves the run
propagate(e, i) == [pc |-> "failed", raised |-> e, idx |-> i]

\* lines 99-103: raise when the vault does not exist; else enumerate its documents
\* and log their number
Start(vault_root, b) ==
    /\ pc = "idle"
    /\ runs < MaxRuns
    /\ backup' = b
    /\ vault' = vault_root
    /\ files0' = files
    /\ IF ~exists(files, dirs, vault_root)
       THEN /\ pc' = "failed"
            /\ raised' = "FileNotFoundError"
            /\ md_files' = <<>>
            /\ log' = <<>>
            /\ idx' = 0
       ELSE /\ md_files' = rglob(files, dirs, order, vault_root)
            /\ log' = <<[ev |-> "Found", n |-> Len(md_files')]>>
            /\ idx' = 1
            /\ pc' = "loop"
            /\ raised' = ""
    /\ UNCHANGED <<files, dirs, order, runs, new_text, changed, unwritable, call, ret, parked, watcher>>

\* lines 173-174: the text, the flag and the log lines the substitution leaves, or
\* the exception that ended it
Substituted(r) ==
    /\ new_text' = r.text
    /\ changed' = r.changed
    /\ log' = log \o r.log
    /\ pc' = IF r.exc = "" THEN "processed" ELSE propagate(r.exc, idx).pc
    /\ raised' = IF r.exc = "" THEN raised ELSE propagate(r.exc, idx).raised
    /\ idx' = IF r.exc = "" THEN idx ELSE propagate(r.exc, idx).idx

\* lines 105-173: read the next document and substitute its blocks
Process ==
    /\ pc = "loop"
    /\ idx <= Len(md_files)
    /\ IF _read_file(files, fp) = Unreadable
       THEN /\ pc' = propagate("OSError", idx).pc
            /\ raised' = propagate("OSError", idx).raised
            /\ idx' = propagate("OSError", idx).idx
            /\ UNCHANGED <<new_text, changed, log>>
       ELSE Substituted(sub(files, dirs, order, fp, _read_file(files, fp), FALSE))
    /\ UNCHANGED <<files, dirs, order, runs, backup, md_files, files0, vault, unwritable, call, ret, parked, watcher>>

\* lines 174-178: the document changed and a backup is asked for
Backup ==
    /\ pc = "processed"
    /\ changed
    /\ backup
    /\ IF bakPath(fp) \in unwritable
       THEN /\ pc' = propagate("OSError", idx).pc
            /\ raised' = propagate("OSError", idx).raised
            /\ idx' = propagate("OSError", idx).idx
            /\ UNCHANGED <<files, log>>
       ELSE /\ files' = copy2(files, fp, bakPath(fp))
            /\ log' = Append(log, [ev |-> "Backup", fp |-> bakPath(fp)])
            /\ pc' = "backedup"
            /\ UNCHANGED <<raised, idx>>
    /\ UNCHANGED <<dirs, order, runs, backup, md_files, new_text, changed, files0, vault, unwritable, call, ret, parked, watcher>>

\* lines 179-180: the document changed, write it
Write ==
    /\ \/ pc = "backedup"
       \/ pc = "processed" /\ changed /\ ~backup
    /\ IF fp \in unwritable
       THEN /\ pc' = propagate("OSError", idx).pc
            /\ raised' = propagate("OSError", idx).raised
            /\ idx' = propagate("OSError", idx).idx
            /\ UNCHANGED <<files, log, new_text, changed>>
       ELSE /\ files' = _write_file(files, fp, new_text)
            /\ log' = Append(log, [ev |-> "Updated", fp |-> fp])
            /\ idx' = idx + 1
            /\ new_text' = <<>>
            /\ changed' = FALSE
            /\ pc' = "loop"
            /\ UNCHANGED raised
    /\ UNCHANGED <<dirs, order, runs, backup, md_files, files0, vault, unwritable, call, ret, parked, watcher>>

\* line 174: the document did not change, go to the next one
Keep ==
    /\ pc = "processed"
    /\ ~changed
    /\ idx' = idx + 1
    /\ new_text' = <<>>
    /\ pc' = "loop"
    /\ UNCHANGED <<files, dirs, order, runs, backup, md_files, changed, log, files0,
                   vault, unwritable, raised, call, ret, parked, watcher>>

\* line 182: every document is done, return the message
Return ==
    /\ pc = "loop"
    /\ idx > Len(md_files)
    /\ pc' = "idle"
    /\ runs' = runs + 1
    /\ UNCHANGED <<files, dirs, order, backup, md_files, idx, new_text, changed, log, files0,
                   vault, unwritable, raised, call, ret, parked, watcher>>

Next ==
    \/ \E b \in BOOLEAN : Start(<<>>, b)
    \/ Process
    \/ Backup
    \/ Write
    \/ Keep
    \/ Return

Spec == Init /\ [][Next]_vars

(***************************************************************************)
(* Runs that an exception ends: a vault_root that names nothing, a         *)
(* document that cannot be read or written, a header of a document that   *)
(* is no mapping.                                                          *)
(***************************************************************************)
Gone == <<<<"gone">>>>

ListText == <<"---", "\n", "-", " ", "title", "\n", "-", " ", "x", "\n", "---", "\n">>

FailATexts == {
    <<"---", "\n", "title", ":", " ", "A", "\n", "tags", ":", " ", "x", "\n", "---", "\n">>,
    ListText,
    Unreadable }

FailQTexts == {<<"Q", "\n">> \o b \o <<"\n">> : b \in Blocks}

InitFail ==
    /\ \E q \in FailQTexts, a \in FailATexts : files = Flat(q, a)
    /\ dirs = {}
    /\ order \in Rotations(<<md("q"), md("a"), md("b")>>)
    /\ unwritable \in {{}, {Q}, {bakPath(Q)}}
    /\ pc = "idle"
    /\ runs = 0
    /\ backup = FALSE
    /\ md_files = <<>>
    /\ idx = 0
    /\ new_text = <<>>
    /\ changed = FALSE
    /\ log = <<>>
    /\ files0 = files
    /\ vault = <<>>
    /\ raised = ""
    /\ call = <<>>
    /\ ret = <<>>
    /\ parked = <<>>
    /\ watcher = <<>>

NextFail ==
    \/ \E v \in {<<>>, Gone}, b \in BOOLEAN : Start(v, b)
    \/ Process
    \/ Backup
    \/ Write
    \/ Keep
    \/ Return

SpecFail == InitFail /\ [][NextFail]_vars

(***************************************************************************)
(* The functions of the module called on their own.                        *)
(***************************************************************************)
Header(ls) == <<"---", "\n">> \o ls \o <<"---", "\n">>

FnTexts == {
    <<>>,
    Header(<<"title", ":", " ", "A", "\n", "tags", ":", " ", "x", "\n">>),
    Header(<<"title", ":", " ", "5", "\n", "tags", ":", "\n">>),
    Header(<<"-", " ", "title", "\n", "-", " ", "x", "\n">>),
    Header(<<"note", " ", "title", "\n">>),
    Header(<<"5", "\n">>),
    Header(<<"0", "\n">>),
    Header(<<"title", ":", " ", "A", ":", " ", "B", "\n">>),
    Header(<<>>),
    <<"---", "\n", "title", ":", " ", "A", "\n">>,
    <<"Q", "\n">> \o Header(<<"title", ":", " ", "A", "\n">>),
    Header(<<"title", ":", " ", "A", "\n", "tags", ":", " ", "x", "\n">>)
        \o <<"tags", "::", " ", "z", "\n", "x", "::", " ", "w", "\n", "title", "::", " ", "T", "\n",
             "file", "::", " ", "F", "\n">>,
    <<"title", "::", " ", "T", "\n", "tags", "::", " ", "z", "\n", "tags", "::", " ", "y">>,
    Header(<<"file", ":", " ", "F", "\n", "name", ":", " ", "N", "\n">>) }

FnCols == {
    <<"title">>, <<"Title">>, <<"name">>, <<"NAME">>, <<"tags">>, <<" ", "tags", " ">>, <<"x">>,
    <<"file">>, <<"File">>, <<"file.name">>, <<"path">>, <<"File.Path">>, <<"missing">> }

FnHeaders == {
    <<"TABLE", " ", "title", ",", " ", "tags", " ", "FROM", " ", DQ, "sub", DQ>>,
    <<"TABLE", " ", "title", ",", " ", "tags", " ", "FROM", " ", DQ, "sub", DQ, " ", "WHERE", " ", "x">>,
    <<"table", " ", "tags", " ", ",", " ", ",", "title", ",", "tags", " ", "from", " ", "sub">>,
    <<"table", " ", "tags", " ", ",", " ", ",", "title", ",", "tags", " ", "from", " ", "sub", " ", "sort", " ", "tags">>,
    <<"TABLE", " ", "title">>,
    <<"TABLE", " ", "title", " ", "WHERE", " ", "x">>,
    <<"TABLE", " ", "WITHOUT", " ", "ID", " ", "title", " ", "FROM", " ", DQ, "x", DQ,
      " ", "WHERE", " ", "file.day", " ", "=", " ", "today">>,
    <<"TABLE", " ", "WITHOUT", " ", "ID", " ", "title", " ", "FROM", " ", DQ, "x", DQ>>,
    <<"TABLE", " ", ",", " ", "FROM", " ", DQ, "sub", DQ>>,
    <<"LIST">>,
    <<"LIST", " ", "WHERE", " ", "x">>,
    <<"LIST", " ", "FROM", " ", DQ, "sub", DQ>>,
    <<"list", " ", "from", " ", DQ, "sub", DQ, " ", "where", " ", "x">>,
    <<"LIST", " ", "FROM", " ", DQ, "sub", DQ, " ", "SORT", " ", "x">>,
    <<"list", " ", "from", " ", "a", ".md">> }

\* the lines of a block after its first line
FnTails == {
    <<>>,
    <<"\n", "FROM", " ", DQ, "sub", DQ>>,
    <<"\n", "LIST", " ", "a", ",", " ", "b">> }

FnBlocks == {<<"\n">> \o h \o t \o <<"\n">> : h \in FnHeaders, t \in FnTails}

FnVault(b) ==
    [p \in {Q, A, B, C, E} |->
        IF p = Q THEN <<"Q", "\n">>
        ELSE IF p = A THEN Header(<<"title", ":", " ", "A", "\n", "tags", ":", " ", "x", "\n">>)
        ELSE IF p = B THEN b
        ELSE IF p = C THEN CText ELSE EText]

FnBTexts == {
    BText,
    <<"title", "::", " ", "T", "\n", "tags", "::", " ", "z">>,
    Header(<<"title", ":", "\n">>),
    ListText }

InitFn ==
    /\ \E b \in FnBTexts : files = FnVault(b)
    /\ dirs = {<<<<"sub">>>>, <<<<"sub">>, <<"n">>>>}
    /\ order = <<md("q"), md("a"), md("b"), <<"sub">>, md("c"), <<"n">>, md("e")>>
    /\ unwritable = {}
    /\ pc = "idle"
    /\ runs = 0
    /\ backup = FALSE
    /\ md_files = <<>>
    /\ idx = 0
    /\ new_text = <<>>
    /\ changed = FALSE
    /\ log = <<>>
    /\ files0 = files
    /\ vault = <<>>
    /\ raised = ""
    /\ call = <<>>
    /\ ret = <<>>
    /\ parked = <<>>
    /\ watcher = <<>>

\* no call runs the program
program == <<files, dirs, order, pc, runs, backup, md_files, idx, new_text, changed, log,
             files0, vault, unwritable, raised, parked, watcher>>

CallExtract(text) ==
    /\ call = <<>>
    /\ call' = <<"_extract_frontmatter", text>>
    /\ ret' = _extract_frontmatter(text)
    /\ UNCHANGED program

CallValue(text, col, f) ==
    /\ call = <<>>
    /\ call' = <<"_value_for_column", text, col, f>>
    /\ ret' = _value_for_column(text, col, f)
    /\ UNCHANGED program

\* _process_block for a match in the document q.md, its flag not yet set
CallBlock(g1) ==
    /\ call = <<>>
    /\ call' = <<"_process_block", g1>>
    /\ ret' = _process_block(files, dirs, order, Q, <<FENCE, "dataview">> \o g1 \o <<FENCE>>, g1, FALSE)
    /\ UNCHANGED program

NextFn ==
    \/ \E text \in FnTexts : CallExtract(text)
    \/ \E text \in FnTexts, col \in FnCols, f \in {A, C} : CallValue(text, col, f)
    \/ \E g1 \in FnBlocks : CallBlock(g1)

SpecFn == InitFn /\ [][NextFn]_vars

(***************************************************************************)
(* Two calls of convert_dataview_in_vault on one vault, a backup asked for *)
(* in both.  The second call is made after the first has returned, or      *)
(* while the first runs; then the steps of the two interleave.  The        *)
(* variables pc, md_files, idx, new_text and changed are the locals of the *)
(* call that steps, parked holds the locals of the other call.             *)
(***************************************************************************)
locals ==
    [pc |-> pc, md_files |-> md_files, idx |-> idx, new_text |-> new_text, changed |-> changed]

InitConc ==
    /\ \E q \in FailQTexts, a \in ATexts : files = Flat(q, a)
    /\ dirs = {}
    /\ order \in Rotations(<<md("q"), md("a"), md("b")>>)
    /\ unwritable = {}
    /\ pc = "idle"
    /\ runs = 0
    /\ backup = TRUE
    /\ vault = <<>>
    /\ md_files = <<>>
    /\ idx = 0
    /\ new_text = <<>>
    /\ changed = FALSE
    /\ log = <<>>
    /\ files0 = files
    /\ raised = ""
    /\ call = <<>>
    /\ ret = <<>>
    /\ parked = <<>>
    /\ watcher = <<>>

\* lines 99-103 in a second call, made while the first call runs
Spawn ==
    /\ parked = <<>>
    /\ runs = 0
    /\ pc \in {"loop", "processed", "backedup"}
    /\ parked' = [pc |-> "loop", md_files |-> rglob(files, dirs, order, vault), idx |-> 1,
                  new_text |-> <<>>, changed |-> FALSE]
    /\ log' = Append(log, [ev |-> "Found", n |-> Len(rglob(files, dirs, order, vault))])
    /\ UNCHANGED <<files, dirs, order, pc, runs, backup, md_files, idx, new_text, changed, files0,
                   vault, unwritable, raised, call, ret, watcher>>

\* the scheduler passes from the call that steps to the other call, not yet returned
Switch ==
    /\ parked # <<>>
    /\ parked.pc # "idle"
    /\ pc' = parked.pc
    /\ md_files' = parked.md_files
    /\ idx' = parked.idx
    /\ new_text' = parked.new_text
    /\ changed' = parked.changed
    /\ parked' = locals
    /\ UNCHANGED <<files, dirs, order, runs, backup, log, files0, vault, unwritable, raised,
                   call, ret, watcher>>

NextConc ==
    \/ parked = <<>> /\ Start(<<>>, TRUE)
    \/ Spawn
    \/ Switch
    \/ Process
    \/ Backup
    \/ Write
    \/ Keep
    \/ Return

SpecConc == InitConc /\ [][NextConc]_vars

(***************************************************************************)
(* deployment_manager.py: setup_quartz of the two managers.  A path is a   *)
(* string, None the string "<None>"; disk says what stands at the Quartz   *)
(* path: whether the folder exists, and package.json and .git in it.  The  *)
(* messages of the code are Russian; here each is an English tag.  What    *)
(* git and npm do is an input: clone "ok" leaves a checkout with           *)
(* package.json, "bare" one without it, "fail" is a non-zero exit and      *)
(* "missing" a program that is not installed.                              *)
(***************************************************************************)
None == "<None>"
DefaultPath == "cwd/quartz_github"

SetupResult(success, message, quartz_path, error) ==
    [success |-> success, message |-> message, quartz_path |-> quartz_path, error |-> error]

\* the outcome of a part of setup_quartz: the exception raised ("" for none) with
\* its message, the disk it leaves, the lines logged
Done(disk, lg) == [exc |-> "", msg |-> "", disk |-> disk, log |-> lg]
Throw(e, msg, disk, lg) == [exc |-> e, msg |-> msg, disk |-> disk, log |-> lg]

\* git_clone(repo_url, dest), then npm install (quartz.py, lines 17-21)
cloneAndInstall(disk, clone, npm) ==
    IF clone = "missing" THEN Throw("FileNotFoundError", "No such file: git", disk, <<"Cloning">>)
    ELSE IF clone = "fail" THEN Throw("RuntimeError", "git clone failed", disk, <<"Cloning">>)
    ELSE IF npm = "missing"
         THEN Throw("FileNotFoundError", "No such file: npm",
                    [exists |-> TRUE, package |-> clone = "ok", git |-> TRUE], <<"Cloning", "npm install">>)
    ELSE Done([exists |-> TRUE, package |-> clone = "ok", git |-> TRUE], <<"Cloning", "npm install">>)

\* git_pull(repo_path) (quartz.py, lines 22-24)
pullExisting(disk, pull) ==
    IF pull = "missing" THEN Throw("FileNotFoundError", "No such file: git", disk, <<"git pull">>)
    ELSE IF pull = "fail" THEN Throw("RuntimeError", "git pull failed", disk, <<"git pull">>)
    ELSE Done(disk, <<"git pull">>)

ensure_quartz_cloned_and_setup(disk, clone, npm, pull) ==
    IF ~disk.exists THEN cloneAndInstall(disk, clone, npm) ELSE pullExisting(disk, pull)

\* GitHubDeploymentManager.setup_quartz, the body of try (lines 71-99): r is what
\* ensure_quartz_cloned_and_setup did
githubChecked(r, lg) ==
    IF r.exc # "" THEN Throw(r.exc, r.msg, r.disk, lg \o r.log)
    ELSE IF ~r.disk.package
         THEN Throw("RuntimeError", "Quartz was not cloned correctly", r.disk, lg \o r.log)
    ELSE Done(r.disk, lg \o r.log \o <<"Quartz set up for GitHub">>)

githubTry(env) ==
    githubChecked(ensure_quartz_cloned_and_setup(env.disk, env.clone, env.npm, env.pull),
                  <<"GitHub mode", "Local folder">>)

\* LocalDeploymentManager.setup_quartz, the body of try (lines 163-187)
localTry(local_path, env) ==
    IF local_path \in {None, ""}
    THEN Throw("ValueError", "A path to Quartz is required in local mode", env.disk, <<>>)
    ELSE IF ~env.disk.exists
         THEN Throw("RuntimeError", "Quartz folder not found", env.disk, <<"Checking">>)
    ELSE IF ~env.disk.package
         THEN Throw("RuntimeError", "Folder holds no Quartz", env.disk, <<"Checking">>)
    ELSE Done(env.disk, <<"Checking">> \o (IF env.disk.git THEN <<>> ELSE <<"Warning: no git">>)
                          \o <<"Local Quartz checked">>)

\* what setup_quartz hands back: the result, the exception that left it ("" for
\* none), the disk and the log.  reraise is except, were the exception let through
reraise(r, path, okMessage, errMessage) ==
    [raised |-> r.exc, disk |-> r.disk, log |-> r.log,
     result |-> IF r.exc = "" THEN SetupResult(TRUE, okMessage, path, None) ELSE <<>>]

\* try ... except Exception as e (lines 93-107 and 183-197)
except(r, path, okMessage, errMessage) ==
    IF r.exc = ""
    THEN [raised |-> "", disk |-> r.disk, log |-> r.log,
          result |-> SetupResult(TRUE, okMessage, path, None)]
    ELSE [raised |-> "", disk |-> r.disk, log |-> Append(r.log, "Error: " \o r.msg),
          result |-> SetupResult(FALSE, errMessage, None, r.msg)]

\* line 72-74: a local_path that is not given becomes the default folder
githubPath(local_path) == IF local_path \in {None, ""} THEN DefaultPath ELSE local_path

setup_quartz(manager, local_path, env) ==
    IF manager = "GitHubDeploymentManager"
    THEN except(githubTry(env), githubPath(local_path),
                "Quartz set up for GitHub deployment", "Setup error")
    ELSE except(localTry(local_path, env), local_path,
                "Local Quartz is ready", "Local check error")

\* the managers, the values of config.local_path, and what the call meets
Managers == {"GitHubDeploymentManager", "LocalDeploymentManager"}
LocalPaths == {None, "", "quartz"}
Disks ==
    {[exists |-> FALSE, package |-> FALSE, git |-> FALSE]} \cup
    {[exists |-> TRUE, package |-> p, git |-> g] : p, g \in BOOLEAN}
Envs ==
    [disk : Disks, clone : {"ok", "bare", "fail", "missing"}, npm : {"ok", "missing"},
     pull : {"ok", "fail", "missing"}]

InitSetup == InitFn /\ files[B] = BText

CallSetup(manager, local_path, env) ==
    /\ call = <<>>
    /\ call' = <<"setup_quartz", manager, local_path, env>>
    /\ ret' = setup_quartz(manager, local_path, env)
    /\ UNCHANGED program

NextSetup == \E m \in Managers, p \in LocalPaths, env \in Envs : CallSetup(m, p, env)

SpecSetup == InitSetup /\ [][NextSetup]_vars

(***************************************************************************)
(* _process_block with FROM arguments that leave the vault.  The vault is   *)
(* the directory v of its parent; the parent holds out.md beside it, and    *)
(* the directory /ext, elsewhere, holds x.md.  Behind ".." the vault's own   *)
(* documents are met again under the names pathlib gives them.              *)
(***************************************************************************)
OutText == Header(<<"title", ":", " ", "OUT", "\n">>)
ExtText == Header(<<"title", ":", " ", "EXT", "\n">>)
OUT == <<UP, md("out")>>
EXT == <<ROOT, <<"ext">>, md("x")>>
Behind(p) == <<UP, <<"v">>>> \o p

ScanVault(b) ==
    [p \in DOMAIN FnVault(b) \cup {Behind(q) : q \in DOMAIN FnVault(b)} \cup {OUT, EXT} |->
        IF p = OUT THEN OutText
        ELSE IF p = EXT THEN ExtText
        ELSE IF p \in DOMAIN FnVault(b) THEN FnVault(b)[p]
        ELSE FnVault(b)[SubSeq(p, 3, Len(p))]]

ScanDirs ==
    {<<<<"sub">>>>, <<<<"sub">>, <<"n">>>>, <<UP>>, Behind(<<>>), Behind(<<<<"sub">>>>),
     Behind(<<<<"sub">>, <<"n">>>>), <<ROOT>>, <<ROOT, <<"ext">>>>}

ScanQueries == {
    <<"LIST">>,
    <<"TABLE", " ", "title">>,
    <<"TABLE", " ", "file.path">>,
    <<"TABLE", " ", "tags", ",", " ", "path">> }

ScanFroms == {
    <<"sub">>,
    <<"..">>,
    <<"..", "/", "v">>,
    <<"..", "/", "v", "/", "sub">>,
    <<"..", "/", "out", ".md">>,
    <<".", "/", "sub", "/", "n">>,
    <<"/", "ext">>,
    <<"/", "ext", "/", "x", ".md">>,
    <<"/", "sub">> }

ScanBlocks ==
    {<<"\n">> \o q \o <<" ", "FROM", " ", DQ>> \o f \o <<DQ, "\n">> :
        q \in ScanQueries, f \in ScanFroms}

InitScan ==
    /\ \E b \in FnBTexts : files = ScanVault(b)
    /\ dirs = ScanDirs
    /\ order = <<md("out"), <<"v">>, md("q"), md("a"), md("b"), <<"sub">>, md("c"), <<"n">>,
                 md("e"), <<"ext">>, md("x")>>
    /\ unwritable = {}
    /\ pc = "idle"
    /\ runs = 0
    /\ backup = FALSE
    /\ md_files = <<>>
    /\ idx = 0
    /\ new_text = <<>>
    /\ changed = FALSE
    /\ log = <<>>
    /\ files0 = files
    /\ vault = <<>>
    /\ raised = ""
    /\ call = <<>>
    /\ ret = <<>>
    /\ parked = <<>>
    /\ watcher = <<>>

NextScan == \E g1 \in ScanBlocks : CallBlock(g1)

SpecScan == InitScan /\ [][NextScan]_vars

(***************************************************************************)
(* Runs that fail at a document after another one has been converted: b.md *)
(* may hold blocks too, one that reads the header of every document, or    *)
(* one that does not and then one that does.                               *)
(***************************************************************************)
AtomicBTexts == {
    BText,
    <<"B", "\n">> \o Block(<<"TABLE", " ", "title">>) \o <<"\n">>,
    <<"B", "\n">> \o Block(<<"TABLE", " ", "tags">>) \o <<"\n">> \o Block(<<"LIST">>) \o <<"\n">> }

InitAtomic ==
    /\ \E q \in FailQTexts, a \in FailATexts, b \in AtomicBTexts :
            files = [Flat(q, a) EXCEPT ![B] = b]
    /\ dirs = {}
    /\ order \in Rotations(<<md("q"), md("a"), md("b")>>)
    /\ unwritable \in {{}, {Q}, {bakPath(Q)}}
    /\ pc = "idle"
    /\ runs = 0
    /\ backup = FALSE
    /\ md_files = <<>>
    /\ idx = 0
    /\ new_text = <<>>
    /\ changed = FALSE
    /\ log = <<>>
    /\ files0 = files
    /\ vault = <<>>
    /\ raised = ""
    /\ call = <<>>
    /\ ret = <<>>
    /\ parked = <<>>
    /\ watcher = <<>>

SpecAtomic == InitAtomic /\ [][NextFail]_vars

(***************************************************************************)
(* auto_launcher.py: a KnowledgeBaseWatcher.  Its handlers are called from *)
(* the one thread of the observer, one event after the other; an update    *)
(* runs in a thread of its own: workers holds where each live thread is,   *)
(* "start" (started, not yet running), "callback", and "returned" or       *)
(* "raised" (the callback over, the flag not yet cleared).  The clock      *)
(* counts seconds.                                                         *)
(***************************************************************************)
MaxClock == 4       \* seconds the clock runs after the watcher is made
MaxEvents == 4      \* events the observer hands to the watcher
MaxWorkers == 2     \* update threads alive at a time

debounce_time == 2
VaultPath == <<"/", "kb">>
Watched == {".md", ".png", ".jpg", ".jpeg", ".gif", ".svg"}

\* str.startswith(prefix) and str.endswith(suffixes)
startswith(s, prefix) == IsPrefix(prefix, s)
endswith(s, T) == s # <<>> /\ s[Len(s)] \in T

\* __init__ (lines 22-27); callback tells whether one was given
KnowledgeBaseWatcher(vault_path, callback) ==
    [vault_path |-> vault_path, callback |-> callback, last_modified |-> 0, is_running |-> FALSE,
     now |-> 0, workers |-> <<>>, events |-> 0, updates |-> 0]

\* _trigger_site_update, were the flag not looked at
triggerUnguarded(w) == [w EXCEPT !.is_running = TRUE, !.workers = Append(@, "start")]

\* lines 58-64: nothing while an update runs; else set the flag and start a thread
_trigger_site_update(w) ==
    IF w.is_running THEN w
    ELSE [w EXCEPT !.is_running = TRUE, !.workers = Append(@, "start")]

\* lines 29-44
on_modified(w, event) ==
    IF event.is_directory THEN w
    ELSE IF ~startswith(event.src_path, w.vault_path) THEN w
    ELSE IF ~endswith(event.src_path, Watched) THEN w
    ELSE IF w.now - w.last_modified > debounce_time
         THEN _trigger_site_update([w EXCEPT !.last_modified = w.now])
    ELSE w

\* lines 46-50 and 52-56
on_created(w, event) == IF event.is_directory THEN w ELSE _trigger_site_update(w)

on_deleted(w, event) == IF event.is_directory THEN w ELSE _trigger_site_update(w)

SrcPaths == {
    <<"/", "kb", "/", "a", ".md">>,
    <<"/", "kb", "/", "i", ".png">>,
    <<"/", "kb", "/", "a", ".txt">>,
    <<"/", "tmp", "/", "a", ".md">> }

Events == [is_directory : BOOLEAN, src_path : SrcPaths]

\* what the watcher leaves alone
converter == <<files, dirs, order, pc, runs, backup, md_files, idx, new_text, changed, log,
               files0, vault, unwritable, raised, ret, parked>>

InitWatch ==
    /\ files = Flat(<<"Q", "\n">>, BText)
    /\ dirs = {}
    /\ order = <<md("q"), md("a"), md("b")>>
    /\ unwritable = {}
    /\ pc = "idle"
    /\ runs = 0
    /\ backup = FALSE
    /\ md_files = <<>>
    /\ idx = 0
    /\ new_text = <<>>
    /\ changed = FALSE
    /\ log = <<>>
    /\ files0 = files
    /\ vault = <<>>
    /\ raised = ""
    /\ call = <<>>
    /\ ret = <<>>
    /\ parked = <<>>
    /\ \E callback \in BOOLEAN : watcher = KnowledgeBaseWatcher(VaultPath, callback)

\* the observer thread hands the watcher an event
Dispatch(name, w) ==
    /\ watcher.events < MaxEvents
    /\ Len(watcher.workers) < MaxWorkers
    /\ watcher' = [w EXCEPT !.events = @ + 1]
    /\ call' = name
    /\ UNCHANGED converter

OnModified(event) == Dispatch(<<"on_modified", event>>, on_modified(watcher, event))

OnCreated(event) == Dispatch(<<"on_created", event>>, on_created(watcher, event))

OnDeleted(event) == Dispatch(<<"on_deleted", event>>, on_deleted(watcher, event))

\* a second passes
Tick ==
    /\ watcher.now < MaxClock
    /\ watcher' = [watcher EXCEPT !.now = @ + 1]
    /\ UNCHANGED <<converter, call>>

\* lines 66-72, the thread i: it enters _update_site and calls the callback, if there
\* is one; the callback returns or raises; the finally clause clears the flag
WorkerRuns(i) ==
    /\ watcher.workers[i] = "start"
    /\ watcher' = [watcher EXCEPT !.workers[i] = IF watcher.callback THEN "callback" ELSE "returned"]
    /\ UNCHANGED <<converter, call>>

CallbackReturns(i) ==
    /\ watcher.workers[i] = "callback"
    /\ watcher' = [watcher EXCEPT !.workers[i] = "returned"]
    /\ UNCHANGED <<converter, call>>

CallbackRaises(i) ==
    /\ watcher.workers[i] = "callback"
    /\ watcher' = [watcher EXCEPT !.workers[i] = "raised"]
    /\ UNCHANGED <<converter, call>>

WorkerEnds(i) ==
    /\ watcher.workers[i] \in {"returned", "raised"}
    /\ watcher' = [watcher EXCEPT !.is_running = FALSE,
                                  !.workers = SubSeq(@, 1, i - 1) \o SubSeq(@, i + 1, Len(@)),
                                  !.updates = @ + 1]
    /\ UNCHANGED <<converter, call>>

NextWatch ==
    \/ \E event \in Events : OnModified(event)
    \/ \E event \in Events : OnCreated(event)
    \/ \E event \in Events : OnDeleted(event)
    \/ Tick
    \/ \E i \in DOMAIN watcher.workers : WorkerRuns(i)
    \/ \E i \in DOMAIN watcher.workers : CallbackReturns(i)
    \/ \E i \in DOMAIN watcher.workers : CallbackRaises(i)
    \/ \E i \in DOMAIN watcher.workers : WorkerEnds(i)

SpecWatch == InitWatch /\ [][NextWatch]_vars

(***************************************************************************)
(* What the claims speak of.                                               *)
(***************************************************************************)
Range(f) == {f[i] : i \in DOMAIN f}
IsDoc(p) == suffix(Name(p)) = <<".md">>
IsBak(p) == suffix(Name(p)) = <<".bak">>

\* the query blocks of a text: the spans DATABLOCK_RE matches, from left to right
RECURSIVE SpansFrom(_, _)
SpansFrom(t, off) ==
    LET m == DATABLOCK_RE(t)
    IN  IF ~m.found THEN <<>>
        ELSE <<[s |-> off + m.s, e |-> off + m.e]>> \o SpansFrom(From(t, m.e + 1), off + m.e)

Spans(t) == SpansFrom(t, 0)
G0(t, sp) == SubSeq(t, sp.s, sp.e)
G1(t, sp) == SubSeq(t, sp.s + 2, sp.e - 1)

\* the first non-empty line of a block, trimmed; <<>> when the block has none
FirstLine(g1) ==
    LET ls == split(g1, "\n")
        I == {i \in 1..Len(ls) : strip(ls[i]) # <<>>}
    IN  IF I = {} THEN <<>> ELSE strip(ls[Min(I)])

IsEmptyBlock(g1) == FirstLine(g1) = <<>>
IsTable(g1) == ~IsEmptyBlock(g1) /\ upper(FirstLine(g1)[1]) = "TABLE"
IsList(g1) == ~IsEmptyBlock(g1) /\ upper(FirstLine(g1)[1]) = "LIST"
IsUnsupported(g1) == ~IsEmptyBlock(g1) /\ ~IsTable(g1) /\ ~IsList(g1)

\* a TABLE line with nothing but commas and blanks between TABLE and FROM
IsColumnLess(g1) ==
    /\ IsTable(g1)
    /\ LET l == FirstLine(g1)
           f == FirstKeyword(l, {"FROM"})
           last == IF f = 0 THEN Len(l) ELSE f - 1
       IN  \A i \in 2..last : l[i] \in {" ", ","}

\* the document in hand has been read and its blocks substituted; text0 is what was read
Processed == pc = "processed"
text0 == files[fp]

\* what sub makes of the text before and after the block sp of the document in hand
Before(sp) == sub(files, dirs, order, fp, SubSeq(text0, 1, sp.s - 1), FALSE)
After(sp) == sub(files, dirs, order, fp, From(text0, sp.e + 1), FALSE)

\* new_text is Before(sp), something, After(sp); Mid is the something, what stands
\* in new_text in the place of the block sp
Framed(sp) ==
    LET px == Before(sp).text
        sx == After(sp).text
    IN  /\ Len(new_text) >= Len(px) + Len(sx)
        /\ SubSeq(new_text, 1, Len(px)) = px
        /\ From(new_text, Len(new_text) - Len(sx) + 1) = sx

Mid(sp) == SubSeq(new_text, Len(Before(sp).text) + 1, Len(new_text) - Len(After(sp).text))

(***************************************************************************)
(* C1.  Idempotence: once a run has completed, a later run substitutes no  *)
(* block, overwrites no document and writes no backup: from its start to   *)
(* its end the files are the files the run before it left, and the flag    *)
(* changed is never set.                                                   *)
(***************************************************************************)
C1_Idempotent == (runs >= 1 /\ pc # "idle") => (files = files0 /\ ~changed)

(***************************************************************************)
(* C2.  Pass-through: a block whose first non-empty line starts with       *)
(* neither TABLE nor LIST stands in new_text as it stood in the text read, *)
(* between what the text before it and the text after it became, and the   *)
(* flag changed is what the other blocks made it.                          *)
(***************************************************************************)
C2_PassThrough ==
    Processed =>
        \A k \in DOMAIN Spans(text0) :
            LET sp == Spans(text0)[k]
            IN  IsUnsupported(G1(text0, sp)) =>
                    /\ Framed(sp)
                    /\ Mid(sp) = G0(text0, sp)
                    /\ changed = (Before(sp).changed \/ After(sp).changed)

\* an unsupported block kept in a document that another block changed
C2_Witness ==
    /\ Processed
    /\ changed
    /\ \E k \in DOMAIN Spans(text0) : IsUnsupported(G1(text0, Spans(text0)[k]))

\* the block k of the document in hand, its first line, the columns and the FROM
\* argument the code reads off that line, and the documents its scan returns
Span(k) == Spans(text0)[k]
Line1(k) == FirstLine(G1(text0, Span(k)))
Cols(k) == parseCols(Line1(k))
FromArg(k) == parseFrom(Line1(k))
Scanned(k) == _gather_files(files, dirs, order, FromArg(k))
IsTableN(k) == IsTable(G1(text0, Span(k))) /\ ~IsColumnLess(G1(text0, Span(k)))
IsListK(k) == IsList(G1(text0, Span(k)))

\* the lines of a rendered table or list, the empty lines around them left out
RenderedLines(k) == SelectSeq(split(Mid(Span(k)), "\n"), NotEmpty)

\* a table row as Markdown reads it: a backslash takes the token after it along,
\* a pipe that no backslash took ends a cell, \| stands for a pipe inside a cell
RECURSIVE MdSplit(_, _)
MdSplit(l, cur) ==
    IF l = <<>> THEN <<cur>>
    ELSE IF Head(l) = "\\" /\ Len(l) >= 2
         THEN MdSplit(Tail(Tail(l)), cur \o (IF l[2] = "|" THEN <<"|">> ELSE <<l[1], l[2]>>))
    ELSE IF Head(l) = "|" THEN <<cur>> \o MdSplit(Tail(l), <<>>)
    ELSE MdSplit(Tail(l), Append(cur, Head(l)))

\* the pipes of a row that end a cell, and the cells between the first and the last
Delimiters(l) == Len(MdSplit(l, <<>>)) - 1
MdCells(l) == [i \in 1..Delimiters(l) - 1 |-> strip(MdSplit(l, <<>>)[i + 1])]

(***************************************************************************)
(* C3.  Column alignment: the table that replaces a TABLE block of N >= 1  *)
(* columns has a header row, a separator row and one data row per scanned  *)
(* document; each of these rows has N cells, and cell i of the row of a     *)
(* document is the value of column i for that document.                    *)
(***************************************************************************)
C3_ColumnAlignment ==
    Processed =>
        \A k \in DOMAIN Spans(text0) :
            IsTableN(k) =>
                /\ Framed(Span(k))
                /\ Len(RenderedLines(k)) = 2 + Len(Scanned(k))
                /\ \A j \in 1..Len(RenderedLines(k)) :
                        Len(MdCells(RenderedLines(k)[j])) = Len(Cols(k))
                /\ \A j \in 1..Len(Scanned(k)) : \A i \in 1..Len(Cols(k)) :
                        MdCells(RenderedLines(k)[j + 2])[i] =
                            _value_for_column(files[Scanned(k)[j]], Cols(k)[i], Scanned(k)[j]).s

(***************************************************************************)
(* C4.  Pipe escaping: every data row of the table that replaces a TABLE   *)
(* block of N columns has exactly N + 1 pipes that end a cell, whatever     *)
(* pipes the values of the columns hold.                                   *)
(***************************************************************************)
C4_PipeEscaping ==
    Processed =>
        \A k \in DOMAIN Spans(text0) :
            IsTableN(k) =>
                \A j \in 3..Len(RenderedLines(k)) :
                    Delimiters(RenderedLines(k)[j]) = Len(Cols(k)) + 1

\* what _process_block returns for the block at sp of the document in hand, first
\* with the flag of the document not set, then with the flag set; and the same for
\* the blocks 1..n of sps
Outcomes(sp) ==
    <<_process_block(files, dirs, order, fp, G0(text0, sp), G1(text0, sp), FALSE),
      _process_block(files, dirs, order, fp, G0(text0, sp), G1(text0, sp), TRUE)>>

RECURSIVE OutcomesOf(_, _)
OutcomesOf(sps, n) ==
    IF n = 0 THEN <<>> ELSE Append(OutcomesOf(sps, n - 1), Outcomes(sps[n]))

\* the blocks taken one after the other in the order pi, the flag of the document
\* going from one to the next: the replacement of each
RECURSIVE RepsIn(_, _, _)
RepsIn(out, pi, chg) ==
    IF pi = <<>> THEN [k \in {} |-> <<>>]
    ELSE LET k == Head(pi)
             r == out[k][IF chg THEN 2 ELSE 1]
             rest == RepsIn(out, Tail(pi), r.changed)
         IN  [j \in {k} \cup DOMAIN rest |-> IF j = k THEN r.rep ELSE rest[j]]

\* the text read up to the end of its block n, the blocks 1..n replaced by reps,
\* and the whole of it with every block replaced
RECURSIVE SplicedTo(_, _, _)
SplicedTo(sps, reps, n) ==
    IF n = 0 THEN <<>>
    ELSE SplicedTo(sps, reps, n - 1)
            \o SubSeq(text0, (IF n = 1 THEN 1 ELSE sps[n - 1].e + 1), sps[n].s - 1)
            \o reps[n]

Spliced(sps, reps) ==
    IF sps = <<>> THEN text0
    ELSE SplicedTo(sps, reps, Len(sps)) \o From(text0, sps[Len(sps)].e + 1)

(***************************************************************************)
(* C5.  Block independence: the text a document gets is the text read with *)
(* each block replaced by what the block alone becomes under the files as  *)
(* they are when the document is read, and the blocks taken in any order,  *)
(* the flag going from one to the next, are replaced by the same.          *)
(***************************************************************************)
C5_BlockIndependence ==
    Processed =>
        LET sps == Spans(text0)
            out == OutcomesOf(sps, Len(sps))
            alone == [k \in DOMAIN sps |-> out[k][1].rep]
        IN  /\ Len(out) = Len(sps)
            /\ Spliced(sps, alone) = new_text
            /\ \A pi \in Perms(DOMAIN sps) : RepsIn(out, pi, FALSE) = alone

\* a document of two blocks, both substituted
C5_Witness ==
    /\ Processed
    /\ Len(Spans(text0)) >= 2
    /\ \A k \in DOMAIN Spans(text0) : IsTableN(k) \/ IsListK(k)
    /\ \A k \in DOMAIN Spans(text0) : Mid(Span(k)) # G0(text0, Span(k))

\* a document one of whose blocks is substituted by the code: a LIST block or a
\* TABLE block with a column
Substitutes(t) ==
    \E k \in DOMAIN Spans(t) :
        \/ IsList(G1(t, Spans(t)[k]))
        \/ IsTable(G1(t, Spans(t)[k])) /\ ~IsColumnLess(G1(t, Spans(t)[k]))

(***************************************************************************)
(* C6.  Write-back iff changed: a document none of whose blocks is         *)
(* substituted is left without a write and without a backup; a document    *)
(* one of whose blocks is substituted is backed up or written next, and    *)
(* written with the substituted text; no file changes but the document in  *)
(* hand and its backup, and only when a block of it was substituted.       *)
(***************************************************************************)
C6_WriteIffChanged ==
    [][ /\ (pc = "processed" /\ ~Substitutes(text0)) => (files' = files /\ pc' = "loop")
        /\ (pc = "processed" /\ Substitutes(text0)) =>
                \/ pc' = "backedup" /\ files'[fp] = files[fp]
                \/ pc' = "loop" /\ files'[fp] = new_text /\ new_text # files[fp]
        /\ pc = "backedup" => (pc' = "loop" /\ files'[fp] = new_text /\ new_text # files[fp])
        /\ \A p \in DOMAIN files' :
                (p \notin DOMAIN files \/ files'[p] # files[p]) =>
                    /\ pc \in {"processed", "backedup"}
                    /\ p \in {fp, bakPath(fp)}
                    /\ Substitutes(text0)
      ]_vars

\* a run is over that kept a document with a block as it was, without a backup,
\* and wrote another one
C6_Witness ==
    /\ pc = "idle" /\ runs = 1 /\ backup
    /\ \E p \in DOMAIN files0 :
        /\ IsDoc(p) /\ Spans(files0[p]) # <<>> /\ ~Substitutes(files0[p])
        /\ files[p] = files0[p] /\ bakPath(p) \notin DOMAIN files
    /\ \E p \in DOMAIN files0 : IsDoc(p) /\ files[p] # files0[p]

(***************************************************************************)
(* C7.  Backup before overwrite: in a run with backup, a document is       *)
(* overwritten only when the run has copied it to its .bak file, and the    *)
(* .bak file then holds what the document held when the run started; in a   *)
(* run without backup no .bak file appears or changes.                     *)
(***************************************************************************)
C7_BackupBeforeOverwrite ==
    [][ /\ backup =>
            \A p \in DOMAIN files :
                (IsDoc(p) /\ files'[p] # files[p]) =>
                    /\ pc = "backedup"
                    /\ \E i \in DOMAIN log : log[i] = [ev |-> "Backup", fp |-> bakPath(p)]
                    /\ bakPath(p) \in DOMAIN files
                    /\ files[bakPath(p)] = files0[p]
                    /\ files'[bakPath(p)] = files0[p]
        /\ (~backup /\ pc # "idle") =>
            \A p \in DOMAIN files' :
                IsBak(p) => (p \in DOMAIN files /\ files'[p] = files[p])
      ]_vars

\* a run with backup has overwritten a document; its .bak file holds what the
\* document held when the run started, which the document holds no more
C7_Witness ==
    /\ backup
    /\ pc = "loop"
    /\ \E p \in DOMAIN files0 :
        /\ IsDoc(p)
        /\ files[p] # files0[p]
        /\ bakPath(p) \in DOMAIN files
        /\ files[bakPath(p)] = files0[p]

\* the FROM argument of the block at sp names something: the path it names
Names(fr) == ~fr.none /\ fr.s # <<>>
Target(fr) == joinpath(fr.s)

\* the documents of the vault, and those below the directory d
Docs(fs) == {p \in DOMAIN fs : IsDoc(p)}
Under(fs, d) == {p \in Docs(fs) : IsPrefix(d, p)}

(***************************************************************************)
(* C8.  Subtree fallback: when the FROM argument of a TABLE or LIST block  *)
(* names a path that does not exist, or one that is no directory, the scan *)
(* of the block returns the documents of the whole vault.                  *)
(***************************************************************************)
C8_SubtreeFallback ==
    Processed =>
        \A k \in DOMAIN Spans(text0) :
            LET fr == FromArg(k)
            IN  ((IsTableN(k) \/ IsListK(k)) /\ Names(fr) /\ ~is_dir(dirs, Target(fr))) =>
                    /\ Range(_gather_files(files, dirs, order, fr)) = Docs(files)
                    /\ Len(RenderedLines(k)) = Cardinality(Docs(files)) + (IF IsTableN(k) THEN 2 ELSE 0)

(***************************************************************************)
(* C9.  Subtree restriction: when the FROM argument of a TABLE or LIST     *)
(* block names a directory of the vault, the block is replaced by one row  *)
(* or item for each document below that directory and by no other; the     *)
(* documents a run converts are all the documents of the vault.            *)
(***************************************************************************)
C9_SubtreeRestriction ==
    /\ pc # "idle" => Range(md_files) = Docs(files0)
    /\ Processed =>
        \A k \in DOMAIN Spans(text0) :
            LET fr == FromArg(k)
                lines == RenderedLines(k)
                cols == Cols(k)
            IN  (Names(fr) /\ is_dir(dirs, Target(fr))) =>
                    /\ IsTableN(k) =>
                        /\ Len(lines) = 2 + Cardinality(Under(files, Target(fr)))
                        /\ {lines[j] : j \in 3..Len(lines)} =
                                {Cells(tableRow(files, cols, p).row) : p \in Under(files, Target(fr))}
                    /\ IsListK(k) =>
                        /\ Len(lines) = Cardinality(Under(files, Target(fr)))
                        /\ Range(lines) =
                                {<<"-", " ">> \o listItem(files, p).item : p \in Under(files, Target(fr))}

\* a block that names the directory sub is replaced by the rows or items of the two
\* documents below sub, in a vault of four documents
C9_Witness ==
    /\ Processed
    /\ Cardinality(Docs(files)) = 4
    /\ \E k \in DOMAIN Spans(text0) :
        /\ IsTableN(k) \/ IsListK(k)
        /\ Names(FromArg(k))
        /\ Target(FromArg(k)) = <<<<"sub">>>>
        /\ is_dir(dirs, Target(FromArg(k)))
        /\ Cardinality(Under(files, Target(FromArg(k)))) = 2
        /\ Len(RenderedLines(k)) = (IF IsTableN(k) THEN 4 ELSE 2)

\* scenario 1: the document q.md holds the block TABLE title, tags FROM "." and stands
\* in a folder with a.md (title A, tags x) and b.md (title B, tags y), and nothing else
Scenario1 ==
    /\ Processed
    /\ fp = Q
    /\ DOMAIN files = {Q, A, B}
    /\ dirs = {}
    /\ text0 = <<"Q", "\n">> \o Block(<<"TABLE", " ", "title", ",", " ", "tags", " ", "FROM", " ", DQ, ".", DQ>>)
    /\ files[A] = <<"---", "\n", "title", ":", " ", "A", "\n", "tags", ":", " ", "x", "\n", "---", "\n">>
    /\ files[B] = BText

Row(title, tags) == <<"|", " ">> \o title \o <<" ", "|", " ">> \o tags \o <<" ", "|">>

(***************************************************************************)
(* C10 as the specification has it.  Scenario 1: the block is replaced by  *)
(* a table with the header | title | tags | and exactly two data rows,     *)
(* | A | x | and | B | y |.                                                *)
(***************************************************************************)
C10_TwoRows ==
    Scenario1 =>
        /\ Len(RenderedLines(1)) = 4
        /\ RenderedLines(1)[1] = Row(<<"title">>, <<"tags">>)
        /\ {RenderedLines(1)[j] : j \in 3..4} = {Row(<<"A">>, <<"x">>), Row(<<"B">>, <<"y">>)}

(***************************************************************************)
(* C10 as the code has it.  Scenario 1: the block is replaced by a table   *)
(* with the header | title | tags | and exactly three data rows,           *)
(* | A | x |, | B | y | and the row of the document that holds the block,  *)
(* its title the stem of its file name and its tags empty: | q |  |.       *)
(***************************************************************************)
C10_ThreeRows ==
    Scenario1 =>
        /\ Len(RenderedLines(1)) = 5
        /\ RenderedLines(1)[1] = Row(<<"title">>, <<"tags">>)
        /\ RenderedLines(1)[2] = Row(<<"---">>, <<"---">>)
        /\ {RenderedLines(1)[j] : j \in 3..5} =
                {Row(<<"A">>, <<"x">>), Row(<<"B">>, <<"y">>), Row(<<"q">>, <<>>)}
        /\ new_text = <<"Q", "\n", "\n">> \o join(RenderedLines(1), <<"\n">>) \o <<"\n">>

\* scenario 1 has been processed and the document changed
C10_Witness == Scenario1 /\ changed /\ runs = 0

\* a call of f has returned (or raised)
Returned(f) == call # <<>> /\ call[1] = f

\* the header map and the inline map of a text as the specification has them: the
\* header map is what _extract_frontmatter returns when that is a mapping, and empty
\* when it is not
HeaderMap(text) ==
    IF _extract_frontmatter(text).kind = "dict" THEN _extract_frontmatter(text).dict ELSE EmptyDict

InlineMap(text) == _extract_inline_kv(text)

IsPseudo(col) == lowerAll(strip(col)) \in {<<"file.name">>, <<"file">>, <<"file.path">>, <<"path">>}
IsTitle(col) == lowerAll(strip(col)) \in {<<"title">>, <<"name">>}

(***************************************************************************)
(* C11.  Resolved values are total and string-valued: for every text and   *)
(* every column name _value_for_column returns a string and raises         *)
(* nothing, and the empty string for a column that is in neither map and   *)
(* is no pseudo-field and no title or name.                                *)
(***************************************************************************)
C11_StringValued ==
    Returned("_value_for_column") =>
        /\ ret.kind = "str"
        /\ ( /\ strip(call[3]) \notin DOMAIN HeaderMap(call[2])
             /\ strip(call[3]) \notin DOMAIN InlineMap(call[2])
             /\ ~IsPseudo(call[3])
             /\ ~IsTitle(call[3]) ) => ret.s = <<>>

\* the text starts with the header fence; a second fence closes the header; what
\* stands between the two
HasFence(text) == text # <<>> /\ text[1] = "---"
HasClosingFence(text) == Len(split2(text, "---")) >= 3
Content(text) == split2(text, "---")[2]

(***************************************************************************)
(* C12.  Header extraction never fails: for every text                     *)
(* _extract_frontmatter returns a mapping and raises nothing, and the      *)
(* mapping is empty when the text does not begin with the header fence,    *)
(* when no fence closes the header, and when what stands between the two   *)
(* fences does not parse as a key-value document.                          *)
(***************************************************************************)
C12_HeaderNeverFails ==
    Returned("_extract_frontmatter") =>
        /\ ret.kind = "dict"
        /\ ~HasFence(call[2]) => ret = PyDict(EmptyDict)
        /\ (HasFence(call[2]) /\ ~HasClosingFence(call[2])) => ret = PyDict(EmptyDict)
        /\ (HasFence(call[2]) /\ HasClosingFence(call[2]) /\ safe_load(Content(call[2])).kind # "dict")
                => ret = PyDict(EmptyDict)

\* the file stem and the path from the vault of the document a column is resolved for
Stem(f) == stem(Name(f))

(***************************************************************************)
(* C13.  Resolver precedence, the first match wins: a pseudo-field (any    *)
(* case) gives the file stem or the path from the vault, whatever the maps *)
(* hold; else a key of the header map gives the header value, whatever the *)
(* inline map holds; else a key of the inline map gives the inline value;  *)
(* else title or name (any case) gives the header title when there is one  *)
(* and the file stem when there is none; else the empty string.            *)
(***************************************************************************)
C13_Precedence ==
    Returned("_value_for_column") =>
        LET text == call[2]
            col == strip(call[3])
            lcol == lowerAll(strip(call[3]))
            f == call[4]
        IN  ret = IF lcol \in {<<"file.name">>, <<"file">>} THEN PyStr(Stem(f))
                  ELSE IF lcol \in {<<"file.path">>, <<"path">>} THEN PyStr(join(f, <<"/">>))
                  ELSE IF col \in DOMAIN HeaderMap(text) THEN PyStr(str(HeaderMap(text)[col]))
                  ELSE IF col \in DOMAIN InlineMap(text) THEN PyStr(InlineMap(text)[col])
                  ELSE IF lcol \in {<<"title">>, <<"name">>}
                       THEN IF <<"title">> \in DOMAIN HeaderMap(text)
                            THEN HeaderMap(text)[<<"title">>] ELSE PyStr(Stem(f))
                  ELSE PyStr(<<>>)

\* the step at hand is a file access that fails: the read of the document in hand,
\* the read of a document that a block of it scans, the copy to the backup, the
\* write of the document
ReadFails == pc = "loop" /\ idx <= Len(md_files) /\ files[fp] = Unreadable

ScanFails ==
    /\ pc = "loop" /\ idx <= Len(md_files) /\ files[fp] # Unreadable
    /\ \E k \in DOMAIN Spans(files[fp]) :
        LET g1 == G1(files[fp], Spans(files[fp])[k])
        IN  /\ IsTable(g1) \/ IsList(g1)
            /\ \E f \in Range(_gather_files(files, dirs, order, parseFrom(FirstLine(g1)))) :
                    files[f] = Unreadable

BackupFails == pc = "processed" /\ changed /\ backup /\ bakPath(fp) \in unwritable

WriteFails ==
    /\ pc = "backedup" \/ (pc = "processed" /\ changed /\ ~backup)
    /\ fp \in unwritable

(***************************************************************************)
(* C14.  I/O failure aborts the run: when the read of a document, the read *)
(* of a scanned file, the write of a backup or the write of a document     *)
(* fails, the error leaves the run at that step, the failing file is not   *)
(* skipped, and after it the run returns nothing, logs nothing and reads,  *)
(* backs up and writes no document.                                        *)
(***************************************************************************)
C14_FailureAborts ==
    [][ /\ (ReadFails \/ BackupFails \/ WriteFails) =>
                (pc' = "failed" /\ raised' = "OSError" /\ idx' = idx /\ runs' = runs)
        /\ ScanFails => (pc' = "failed" /\ raised' # "" /\ idx' = idx /\ runs' = runs)
        /\ pc = "failed" =>
                (pc' = "failed" /\ files' = files /\ log' = log /\ idx' = idx /\ runs' = runs)
      ]_vars

\* a run that a failed file access ended, with a backup made and a document left
\* that the run never came to
C14_Witness ==
    /\ pc = "failed"
    /\ raised = "OSError"
    /\ runs = 0
    /\ idx < Len(md_files)
    /\ files # files0

\* the path names nothing: no file and no directory
Missing(p) == p # <<>> /\ p \notin dirs /\ p \notin DOMAIN files

(***************************************************************************)
(* C15.  Missing vault root: a run started with a vault_root that does not *)
(* exist raises the not-found error at once: no line is logged, no         *)
(* document is enumerated and no file is created or changed.               *)
(***************************************************************************)
C15_MissingVault ==
    [][ (pc = "idle" /\ pc' # "idle" /\ Missing(vault')) =>
            /\ pc' = "failed"
            /\ raised' = "FileNotFoundError"
            /\ log' = <<>>
            /\ md_files' = <<>>
            /\ files' = files
            /\ runs' = runs
      ]_vars

\* a run on a vault_root that does not exist has raised
C15_Witness ==
    /\ pc = "failed"
    /\ Missing(vault)
    /\ raised = "FileNotFoundError"
    /\ log = <<>>
    /\ files = files0

\* a document all of whose blocks are TABLE blocks without a column
OnlyColumnLess(t) ==
    /\ Spans(t) # <<>>
    /\ \A k \in DOMAIN Spans(t) : IsColumnLess(G1(t, Spans(t)[k]))

(***************************************************************************)
(* C16.  Column-less TABLE guard: a TABLE block whose column list is empty *)
(* stands in the new text as it stood in the text read and does not set    *)
(* the flag of the document; a document with no other block is left        *)
(* without a write and without a backup.                                   *)
(***************************************************************************)
C16_ColumnLessGuard ==
    [][ Processed =>
            /\ \A k \in DOMAIN Spans(text0) :
                    IsColumnLess(G1(text0, Span(k))) =>
                        /\ Framed(Span(k))
                        /\ Mid(Span(k)) = G0(text0, Span(k))
                        /\ changed = (Before(Span(k)).changed \/ After(Span(k)).changed)
            /\ OnlyColumnLess(text0) =>
                    (~changed /\ new_text = text0 /\ files' = files /\ pc' = "loop")
      ]_vars

\* a run is over in which a document whose only block is a TABLE block without a
\* column was kept as it was, without a backup
C16_Witness ==
    /\ pc = "idle" /\ runs = 1 /\ backup
    /\ OnlyColumnLess(files0[Q])
    /\ files[Q] = files0[Q]
    /\ bakPath(Q) \notin DOMAIN files

\* the text of the line l of a TABLE block between the keyword and the FROM clause,
\* and its entries between commas: each trimmed, the empty ones left out
ColumnText(l) ==
    LET f == FirstTok(l, {"FROM", "from"})
    IN  SubSeq(l, 2, IF f = 0 THEN Len(l) ELSE f - 1)

RECURSIVE Entries(_, _, _)
Entries(s, cur, acc) ==
    LET more == IF strip(cur) = <<>> THEN acc ELSE Append(acc, strip(cur))
    IN  IF s = <<>> THEN more
        ELSE IF Head(s) = "," THEN Entries(Tail(s), <<>>, more)
        ELSE Entries(Tail(s), Append(cur, Head(s)), acc)

ListedCols(l) == Entries(ColumnText(l), <<>>, <<>>)

\* the block that _process_block was called for, the same block cut to its first
\* line, and the match of each
CalledG1 == call[2]
FirstOnly == <<"\n">> \o FirstLine(CalledG1) \o <<"\n">>
Fenced(g1) == <<FENCE, "dataview">> \o g1 \o <<FENCE>>
OfFirstOnly == _process_block(files, dirs, order, Q, Fenced(FirstOnly), FirstOnly, FALSE)

\* the lines of the text _process_block returned, the empty ones left out
RetLines == SelectSeq(split(ret.rep, "\n"), NotEmpty)

(***************************************************************************)
(* C17.  Column list parsing: the columns of a TABLE block are the entries *)
(* between commas of its first line between the keyword and the FROM       *)
(* clause, each trimmed, the empty ones left out, in their order and with  *)
(* their duplicates; the header row of the rendered table lists these      *)
(* names in this order; the lines after the first line change nothing:     *)
(* the block is left or replaced as the block of its first line alone is.  *)
(***************************************************************************)
C17_ColumnParsing ==
    Returned("_process_block") =>
        /\ IsTable(CalledG1) =>
            /\ parseCols(FirstLine(CalledG1)) = ListedCols(FirstLine(CalledG1))
            /\ (ret.exc = "" /\ ListedCols(FirstLine(CalledG1)) # <<>>) =>
                    /\ ret.changed
                    /\ RetLines[1] = Cells(ListedCols(FirstLine(CalledG1)))
        /\ ret.exc = OfFirstOnly.exc
        /\ ret.changed = OfFirstOnly.changed
        /\ ret.log = OfFirstOnly.log
        /\ IF OfFirstOnly.rep = Fenced(FirstOnly) THEN ret.rep = Fenced(CalledG1)
           ELSE ret.rep = OfFirstOnly.rep

\* a TABLE block of two lines has been rendered: an empty entry left out, a
\* duplicate kept, the second line of the block without effect
C17_Witness ==
    /\ Returned("_process_block")
    /\ IsTable(CalledG1)
    /\ CalledG1 # FirstOnly
    /\ ret.exc = ""
    /\ ListedCols(FirstLine(CalledG1)) = <<<<"tags">>, <<"title">>, <<"tags">>>>
    /\ RetLines[1] = <<"|", " ", "tags", " ", "|", " ", "title", " ", "|", " ", "tags", " ", "|">>
    /\ Len(RetLines) = 4

\* the place of the first WHERE or SORT of the line l (0 for none), the line without
\* the clause that starts there, and the block of that line
ClauseAt(l) == FirstTok(l, {"WHERE", "where", "SORT", "sort"})
NoClause(l) == IF ClauseAt(l) = 0 THEN l ELSE strip(SubSeq(l, 1, ClauseAt(l) - 1))
NoClauseBlock == <<"\n">> \o NoClause(FirstLine(CalledG1)) \o <<"\n">>
OfNoClause == _process_block(files, dirs, order, Q, Fenced(NoClauseBlock), NoClauseBlock, FALSE)

\* the source subtree of the line l: none without a FROM; else the text after FROM
\* up to the first WHERE or SORT, the blanks and the quotes around it taken off
FromAt(l) == FirstTok(l, {"FROM", "from"})
SourceOf(l) ==
    IF FromAt(l) = 0 THEN NoFrom
    ELSE SomeFrom(stripChars(strip(NoClause(From(l, FromAt(l) + 1))), {DQ, SQ}))

(***************************************************************************)
(* C18.  FROM argument and discarded clauses: the source subtree of a      *)
(* TABLE or LIST line is the text after FROM up to the first WHERE or      *)
(* SORT, its quotes taken off; the WHERE and SORT clauses are not          *)
(* evaluated: the block is replaced by the same text with and without the  *)
(* clause that ends its first line.                                        *)
(***************************************************************************)
C18_FromAndClauses ==
    (Returned("_process_block") /\ (IsTable(CalledG1) \/ IsList(CalledG1))) =>
        /\ parseFrom(FirstLine(CalledG1)) = SourceOf(FirstLine(CalledG1))
        /\ ret.log # <<>> => ret.log[1].from = SourceOf(FirstLine(CalledG1))
        /\ ret.exc = OfNoClause.exc
        /\ ret.changed = OfNoClause.changed
        /\ IF OfNoClause.rep = Fenced(NoClauseBlock) THEN ret.rep = Fenced(CalledG1)
           ELSE ret.rep = OfNoClause.rep

\* the title of the document f as the specification has it, the header title when
\* there is one and the file stem when there is none, and the line of f in a list
TitleOf(f) ==
    IF <<"title">> \in DOMAIN HeaderMap(files[f])
    THEN str(HeaderMap(files[f])[<<"title">>]) ELSE Stem(f)

LinkLine(f) == <<"-", " ", "[">> \o TitleOf(f) \o <<"]", "(">> \o join(f, <<"/">>) \o <<")">>

(***************************************************************************)
(* C19.  LIST rendering: a LIST block is always substituted, also when its *)
(* scan returns no document, by a line break, one line - [title](path) for *)
(* each scanned document, and a line break; the title is the header title  *)
(* of the document when it has one and its file stem when it has none, the *)
(* path is its path from the vault.                                        *)
(***************************************************************************)
C19_ListRendering ==
    (Returned("_process_block") /\ IsList(CalledG1)) =>
        LET scan == _gather_files(files, dirs, order, parseFrom(FirstLine(CalledG1)))
        IN  /\ ret.exc = ""
            /\ ret.changed
            /\ ret.rep = <<"\n">> \o join([i \in 1..Len(scan) |-> LinkLine(scan[i])], <<"\n">>) \o <<"\n">>

(***************************************************************************)
(* C20.  No supported fence survives a run: when a run has returned, no    *)
(* document of the vault holds a LIST block or a TABLE block with a        *)
(* column, and every document that held one when the run started has been  *)
(* rewritten.                                                              *)
(***************************************************************************)
C20_NoSupportedFence ==
    (pc = "idle" /\ runs >= 1) =>
        \A p \in Docs(files) :
            /\ ~Substitutes(files[p])
            /\ Substitutes(files0[p]) => files[p] # files0[p]

\* the blocks of the document in hand that stand in new_text as they stood in the
\* text read, and the lines the run has logged for a block of that document left as
\* it was
Verbatim == {k \in DOMAIN Spans(text0) : Framed(Span(k)) /\ Mid(Span(k)) = G0(text0, Span(k))}
Diagnostics == {i \in DOMAIN log : log[i].ev = "Skipped" /\ log[i].fp = fp}

(***************************************************************************)
(* C21.  Diagnostic for every block left verbatim: when a document has     *)
(* been processed, the log holds one diagnostic line of that document for  *)
(* each of its blocks left unchanged: unsupported, empty, or a TABLE       *)
(* without a column.                                                       *)
(***************************************************************************)
C21_DiagnosticLogged ==
    Processed => Cardinality(Diagnostics) = Cardinality(Verbatim)

\* both calls have returned; the second call was made while the first ran
BothReturned == pc = "idle" /\ runs = 2 /\ (parked = <<>> \/ parked.pc = "idle")
Concurrent == parked # <<>>

\* the document p has a backup, and no file holds the text p had before the calls
OriginalLost(p) ==
    /\ bakPath(p) \in DOMAIN files
    /\ \A f \in DOMAIN files : files[f] # files0[p]

\* two concurrent calls have returned and left a document whose backup holds
\* converted text, its original text in no file
C22_LostBackup ==
    /\ Concurrent
    /\ BothReturned
    /\ \E p \in DOMAIN files0 : OriginalLost(p)

(***************************************************************************)
(* C22.  Serialized calls keep the backup: when the second call is made    *)
(* after the first has returned, no step of the second call changes a      *)
(* .bak file the first call wrote, so that file still holds the original   *)
(* text when both have returned.  (Unserialized, the backup can be lost:   *)
(* the state C22_LostBackup is reachable.)                                 *)
(***************************************************************************)
C22_SerializedKeepsBackup ==
    [][ (~Concurrent /\ runs = 1) =>
            \A p \in DOMAIN files : IsBak(p) => files'[p] = files[p]
      ]_vars

\* convert_dataview_in_vault as a function of the files fs it starts from and of its
\* argument backup b: what the loop makes of one document f, of the documents
\* fls[i..], and of all of them; the files it leaves and the lines it logs
docFiles(fs, f, b, r) ==
    IF ~r.changed THEN fs
    ELSE _write_file(IF b THEN copy2(fs, f, bakPath(f)) ELSE fs, f, r.text)

docLog(f, b, r) ==
    r.log \o (IF r.changed /\ b THEN <<[ev |-> "Backup", fp |-> bakPath(f)]>> ELSE <<>>)
          \o (IF r.changed THEN <<[ev |-> "Updated", fp |-> f]>> ELSE <<>>)

RECURSIVE loopFrom(_, _, _, _, _)
loopFrom(fs, lg, fls, i, b) ==
    IF i > Len(fls) THEN [files |-> fs, log |-> lg]
    ELSE LET r == sub(fs, dirs, order, fls[i], fs[fls[i]], FALSE)
         IN  loopFrom(docFiles(fs, fls[i], b, r), lg \o docLog(fls[i], b, r), fls, i + 1, b)

convert(fs, b) ==
    loopFrom(fs, <<[ev |-> "Found", n |-> Len(rglob(fs, dirs, order, <<>>))]>>,
             rglob(fs, dirs, order, <<>>), 1, b)

SetupManager == call[2]
SetupLocalPath == call[3]
SetupEnv == call[4]
IsGitHub == SetupManager = "GitHubDeploymentManager"
PathGiven == SetupLocalPath \notin {None, ""}
QuartzPath == IF IsGitHub /\ ~PathGiven THEN DefaultPath ELSE SetupLocalPath
Failed(message) == ~ret.result.success /\ ret.result.error = message

(***************************************************************************)
(* C24.  Deployment setup reports failures as values: setup_quartz of both *)
(* managers never raises; a failed clone or pull, a missing local_path, a  *)
(* missing Quartz folder and a missing package.json each give a result     *)
(* with success false and the message of the failure as error; success is  *)
(* true only with package.json in the Quartz path, and then quartz_path is *)
(* that path.                                                              *)
(***************************************************************************)
C24_SetupReportsFailures ==
    Returned("setup_quartz") =>
        /\ ret.raised = ""
        /\ ret.result.success =>
                /\ ret.disk.package
                /\ ret.result.quartz_path = QuartzPath
                /\ ret.result.error = None
        /\ ~ret.result.success => ret.result.error # None
        /\ (IsGitHub /\ ~SetupEnv.disk.exists /\ SetupEnv.clone = "fail") => Failed("git clone failed")
        /\ (IsGitHub /\ SetupEnv.disk.exists /\ SetupEnv.pull = "fail") => Failed("git pull failed")
        /\ (IsGitHub /\ SetupEnv.disk.exists /\ SetupEnv.pull = "ok" /\ ~SetupEnv.disk.package)
                => Failed("Quartz was not cloned correctly")
        /\ (IsGitHub /\ ~SetupEnv.disk.exists /\ SetupEnv.clone = "bare" /\ SetupEnv.npm = "ok")
                => Failed("Quartz was not cloned correctly")
        /\ (~IsGitHub /\ ~PathGiven) => Failed("A path to Quartz is required in local mode")
        /\ (~IsGitHub /\ PathGiven /\ ~SetupEnv.disk.exists) => Failed("Quartz folder not found")
        /\ (~IsGitHub /\ PathGiven /\ SetupEnv.disk.exists /\ ~SetupEnv.disk.package)
                => Failed("Folder holds no Quartz")

\* a clone that failed has been reported as a value
C24_Witness ==
    /\ Returned("setup_quartz")
    /\ IsGitHub
    /\ ~SetupEnv.disk.exists
    /\ SetupEnv.clone = "fail"
    /\ ret.raised = ""
    /\ Failed("git clone failed")
    /\ ret.result.quartz_path = None

\* the document a log line is about (the line of a backup names the .bak file), the
\* place of a document in the enumeration of the run, and the lines about a document
LineDoc(l) ==
    IF l.ev = "Backup" THEN CHOOSE p \in Range(md_files) : bakPath(p) = l.fp ELSE l.fp
Place(p) == CHOOSE i \in DOMAIN md_files : md_files[i] = p
LinesOf(p) == {i \in 2..Len(log) : LineDoc(log[i]) = p}
LinesOfKind(p, evs) == {i \in LinesOf(p) : log[i].ev \in evs}

\* the blocks of the text t that the code substitutes
Substituted0(t) ==
    {k \in DOMAIN Spans(t) :
        \/ IsList(G1(t, Spans(t)[k]))
        \/ IsTable(G1(t, Spans(t)[k])) /\ ~IsColumnLess(G1(t, Spans(t)[k]))}

(***************************************************************************)
(* C25.  Per-document event order: when a run is over, the first line of   *)
(* its log is the count of documents found, and no other line is; the      *)
(* lines of a document stand together, the documents in the order of the   *)
(* enumeration, each document enumerated once; an overwritten document has *)
(* one converted line per substituted block, then one backup line if and   *)
(* only if a backup was asked for, then one updated line; a document that  *)
(* was not overwritten has neither a backup line nor an updated line.      *)
(***************************************************************************)
C25_EventOrder ==
    (pc = "idle" /\ runs >= 1) =>
        /\ log[1].ev = "Found"
        /\ log[1].n = Len(md_files)
        /\ \A i \in 2..Len(log) : log[i].ev # "Found"
        /\ \A i, j \in DOMAIN md_files : md_files[i] = md_files[j] => i = j
        /\ \A i, j \in 2..Len(log) :
                i < j => Place(LineDoc(log[i])) <= Place(LineDoc(log[j]))
        /\ \A p \in Range(md_files) :
                IF files[p] # files0[p]
                THEN /\ Cardinality(LinesOfKind(p, {"Converted TABLE", "Converted LIST"}))
                            = Cardinality(Substituted0(files0[p]))
                     /\ Cardinality(LinesOfKind(p, {"Backup"})) = (IF backup THEN 1 ELSE 0)
                     /\ Cardinality(LinesOfKind(p, {"Updated"})) = 1
                     /\ \A i \in LinesOfKind(p, {"Updated"}) : \A j \in LinesOf(p) : j <= i
                     /\ \A i \in LinesOfKind(p, {"Backup"}) :
                            \A j \in LinesOf(p) : j > i => log[j].ev = "Updated"
                ELSE LinesOfKind(p, {"Backup", "Updated"}) = {}

\* a run with a backup is over that overwrote two documents, one of them with two
\* substituted blocks
C25_Witness ==
    /\ pc = "idle" /\ runs = 1 /\ backup
    /\ Cardinality({p \in Range(md_files) : files[p] # files0[p]}) >= 2
    /\ \E p \in Range(md_files) :
            /\ files[p] # files0[p]
            /\ Cardinality(Substituted0(files0[p])) = 2

(***************************************************************************)
(* C26.  Independence from document processing order: the text every       *)
(* document has when a run is over is the text it would have had the loop  *)
(* taken the documents of the vault in any other order.                    *)
(***************************************************************************)
C26_OrderIndependent ==
    (pc = "idle" /\ runs = 1) =>
        \A pi \in Perms(Range(md_files)) :
            \A p \in Range(md_files) :
                loopFrom(files0, <<>>, pi, 1, backup).files[p] = files[p]

(***************************************************************************)
(* C27.  Scan confinement: whatever the FROM argument of a block, also one  *)
(* with ".." or an absolute path, _process_block raises nothing and every    *)
(* document it reads lies below the vault root: none is reached through      *)
(* ".." and none is an absolute path elsewhere.                             *)
(***************************************************************************)
InVault(p) == \A i \in 1..Len(p) : p[i] \notin {ROOT, UP}
ReadByCall == Range(_gather_files(files, dirs, order, parseFrom(strip(FirstLine(CalledG1)))))

C27_ScanConfined ==
    Returned("_process_block") =>
        /\ ret.exc = ""
        /\ \A f \in ReadByCall : InVault(f)

\* the two failures apart: a document outside the vault is read and rendered, and
\* the path of a scanned document relative to the vault cannot be computed
C27_ReadsOutside ==
    /\ Returned("_process_block")
    /\ ret.exc = ""
    /\ OUT \in ReadByCall
    /\ IsInfix(<<"OUT">>, ret.rep)

C27_RelativeFails ==
    /\ Returned("_process_block")
    /\ ret.exc = "ValueError"
    /\ ReadByCall = {EXT}

\* rendering a block of the document d, as the run found it, raises
BlockRaises(d, sp) ==
    _process_block(files0, dirs, order, d, G0(files0[d], sp), G1(files0[d], sp), FALSE).exc # ""

RenderFails(d) ==
    /\ files0[d] # Unreadable
    /\ \E k \in DOMAIN Spans(files0[d]) : BlockRaises(d, Spans(files0[d])[k])

\* d is as the run found it, and so is its backup if there is one
Untouched(d) ==
    /\ files[d] = files0[d]
    /\ bakPath(d) \in DOMAIN files =>
            bakPath(d) \in DOMAIN files0 /\ files[bakPath(d)] = files0[bakPath(d)]

\* the documents before the i-th, converted one after the other
Earlier(i) == loopFrom(files0, <<>>, SubSeq(md_files, 1, i - 1), 1, backup).files

(***************************************************************************)
(* C28.  Per-document atomicity on error: a document d with a block whose  *)
(* rendering fails is left as the run found it and no backup of d is made, *)
(* whichever of its blocks fails; and when the run has failed at d, every   *)
(* document processed before d holds its converted text and its backup:    *)
(* nothing is rolled back.                                                  *)
(***************************************************************************)
C28_AtomicOnError ==
    /\ \A j \in 1..Len(md_files) : RenderFails(md_files[j]) => Untouched(md_files[j])
    /\ (pc = "failed" /\ idx \in 1..Len(md_files) /\ RenderFails(fp)) =>
            \A j \in 1..idx - 1 :
                /\ files[md_files[j]] = Earlier(idx)[md_files[j]]
                /\ bakPath(md_files[j]) \in DOMAIN files =>
                        files[bakPath(md_files[j])] = Earlier(idx)[bakPath(md_files[j])]

\* the run has failed at the second block of b.md, the first one rendered, after
\* q.md was backed up and rewritten
C28_Witness ==
    /\ pc = "failed"
    /\ idx \in 1..Len(md_files)
    /\ fp = B
    /\ Len(Spans(files0[B])) = 2
    /\ ~BlockRaises(B, Spans(files0[B])[1])
    /\ BlockRaises(B, Spans(files0[B])[2])
    /\ files[Q] # files0[Q]
    /\ bakPath(Q) \in DOMAIN files
    /\ files[B] = files0[B]
    /\ bakPath(B) \notin DOMAIN files

\* <doc>.md.bak, and the run in hand has written the document d
BakOf(d) == Parent(d) \o <<Name(d) \o <<".bak">>>>
Overwritten(d) == \E i \in DOMAIN log : log[i].ev = "Updated" /\ log[i].fp = d

\* a listing in which every name is followed by the name of its backup
WithBackups(ord) ==
    [i \in 1..2 * Len(ord) |-> IF i % 2 = 1 THEN ord[(i + 1) \div 2] ELSE ord[i \div 2] \o <<".bak">>]

(***************************************************************************)
(* C29.  Backup content across serial runs: between the documents of a run *)
(* with backup = true and after it, the backup of a document the run has    *)
(* overwritten holds the text the document had when the run began, in the   *)
(* place of any earlier backup, and a document the run has not overwritten  *)
(* has the backup it had, or none; so after runs one after the other a      *)
(* backup holds the text from before the latest run that overwrote its      *)
(* document.  A backup is never enumerated as a document, and no scan       *)
(* yields one, wherever the listing has it.                                 *)
(***************************************************************************)
C29_BackupAcrossRuns ==
    /\ (pc \in {"idle", "loop"} /\ backup) =>
            \A d \in DOMAIN files0 :
                IsDoc(d) =>
                    IF Overwritten(d)
                    THEN BakOf(d) \in DOMAIN files /\ files[BakOf(d)] = files0[d]
                    ELSE /\ files[d] = files0[d]
                         /\ BakOf(d) \in DOMAIN files <=> BakOf(d) \in DOMAIN files0
                         /\ BakOf(d) \in DOMAIN files => files[BakOf(d)] = files0[BakOf(d)]
    /\ \A i \in DOMAIN md_files : IsDoc(md_files[i])
    /\ \A base \in {<<>>} \cup dirs \cup DOMAIN files :
            /\ rglob(files, dirs, WithBackups(order), base) = rglob(files, dirs, order, base)
            /\ \A p \in Range(rglob(files, dirs, order, base)) : IsDoc(p)

\* a second run with backups is over: it has overwritten a document again and put
\* the text from before it in the place of the backup the first run made, the
\* backups are in the vault and in its listing, and no document is one
C29_Witness ==
    /\ pc = "idle"
    /\ runs = 2
    /\ backup
    /\ \E d \in DOMAIN files0 :
        /\ IsDoc(d)
        /\ Overwritten(d)
        /\ BakOf(d) \in DOMAIN files0
        /\ files0[BakOf(d)] # files0[d]
        /\ files[BakOf(d)] = files0[d]
        /\ files[d] # files0[d]

\* the callbacks in flight
InFlight(w) == Cardinality({i \in DOMAIN w.workers : w.workers[i] = "callback"})

\* the step hands the watcher an event; it starts an update thread; an update has
\* ended before it and none runs
Dispatched == watcher'.events = watcher.events + 1

StartsUpdate ==
    /\ Len(watcher'.workers) = Len(watcher.workers) + 1
    /\ watcher'.workers[Len(watcher'.workers)] = "start"
    /\ watcher'.is_running

AfterCompletion == watcher.updates >= 1 /\ ~watcher.is_running /\ watcher.workers = <<>>

\* the event of the step is one of a file; it is one that comes to
\* _trigger_site_update: a file created or deleted, or a file modified under the
\* vault path, with a watched extension, later than debounce_time after the last
\* such modification
FileEvent == ~call'[2].is_directory

ComesToTrigger ==
    /\ ~call'[2].is_directory
    /\ call'[1] = "on_modified" =>
            /\ startswith(call'[2].src_path, watcher.vault_path)
            /\ endswith(call'[2].src_path, Watched)
            /\ watcher.now - watcher.last_modified > debounce_time

\* at most one callback in flight and one update thread alive; an event handed over
\* while an update runs starts none, and only an event starts one: none is kept for
\* later; a thread ends with the flag cleared, and the flag is set only while one
\* is alive
GuardHolds ==
    /\ InFlight(watcher') <= 1
    /\ Len(watcher'.workers) <= 1
    /\ (Dispatched /\ watcher.is_running) =>
            watcher'.workers = watcher.workers /\ watcher'.is_running
    /\ ~Dispatched => Len(watcher'.workers) <= Len(watcher.workers)
    /\ Len(watcher'.workers) < Len(watcher.workers) =>
            /\ \E i \in DOMAIN watcher.workers : watcher.workers[i] \in {"returned", "raised"}
            /\ ~watcher'.is_running
    /\ watcher'.is_running <=> watcher'.workers # <<>>

(***************************************************************************)
(* C30.  Watcher single-flight guard, as stated: with the handlers called  *)
(* from one thread, at most one update callback is in flight; an event     *)
(* that comes while an update runs starts none and is not queued; the flag *)
(* is cleared when the callback has returned or raised, and the next file  *)
(* event after an update has ended starts a new update.                    *)
(***************************************************************************)
C30_SingleFlight ==
    [][ /\ GuardHolds
        /\ (Dispatched /\ AfterCompletion /\ FileEvent) => StartsUpdate
      ]_vars

(***************************************************************************)
(* C30, amended.  The same, the last part for the events that come to      *)
(* _trigger_site_update: after an update has ended, the next created or    *)
(* deleted file, or modified file that passes the checks of on_modified,   *)
(* starts a new update; any other event starts none.                       *)
(***************************************************************************)
C30_SingleFlightOfTriggers ==
    [][ /\ GuardHolds
        /\ (Dispatched /\ AfterCompletion /\ ComesToTrigger) => StartsUpdate
        /\ (Dispatched /\ ~ComesToTrigger) => watcher'.workers = watcher.workers
      ]_vars

\* an update has ended, with or without its callback raising, and the second event
\* the watcher was handed, a modification, has its callback in flight
C30_Witness ==
    /\ watcher.updates = 1
    /\ watcher.events = 2
    /\ call[1] = "on_modified"
    /\ watcher.workers = <<"callback">>
    /\ watcher.is_running
    /\ watcher.last_modified = watcher.now

====
